---- MODULE Spec2Model ----
(***************************************************************************)
(* A model of TestData (src/entrance.py): the catalog of sites and         *)
(* specimens, the dataset cache, the seeded generator, the range           *)
(* aggregator, the parameter summary, the formatter, the filter-expression *)
(* parser and the condition evaluator.                                     *)
(*                                                                         *)
(* Strings are sequences of one-character strings, so that concatenation,  *)
(* hashing, stripping and matching are computed character by character.    *)
(* Floats are decimal fixed point: sample values are integers in units of  *)
(* 1/U; means, thresholds and parsed values are decimals [m, e] standing   *)
(* for m * 10^e.                                                           *)
(***************************************************************************)
EXTENDS Integers, Sequences, FiniteSets, TLC

\* ------------------------------------------------------------------ bounds

\* num_plots is drawn from 0..MaxPlots, num_params from 0..MaxParams
MaxPlots == 3
MaxParams == 3
\* the process's string-hash salts are 0..MaxSalt
MaxSalt == 1
\* the longest run of spaces in an expression given to the parser
MaxPad == 2
\* the values given to the formatter are m * 10^e for the m up to MaxSmall and a
\* few of five and six digits, and e from -MaxShift to 2
MaxSmall == 12
MaxShift == 8
\* the seed space (2**32 in the source) and the period of the random source
SeedMod == 65536

\* ------------------------------------------------------------------ numbers

Abs(n) == IF n < 0 THEN -n ELSE n
Max(a, b) == IF a >= b THEN a ELSE b
Min(a, b) == IF a <= b THEN a ELSE b

RECURSIVE Pow10(_)
Pow10(k) == IF k <= 0 THEN 1 ELSE 10 * Pow10(k - 1)

\* fixed point: a sample value v stands for v / U
U == Pow10(4)
\* np.pi in units of 1/U
PiU == 31416

\* number of decimal digits of n >= 0 (0 has none)
RECURSIVE NumDigits(_)
NumDigits(n) == IF n = 0 THEN 0 ELSE 1 + NumDigits(n \div 10)

\* the sum, the least and the greatest of s[lo..hi], by halving
RECURSIVE SumRange(_, _, _)
SumRange(s, lo, hi) ==
  IF lo > hi THEN 0
  ELSE IF lo = hi THEN s[lo]
  ELSE SumRange(s, lo, (lo + hi) \div 2) + SumRange(s, (lo + hi) \div 2 + 1, hi)
RECURSIVE MinRange(_, _, _)
MinRange(s, lo, hi) ==
  IF lo = hi THEN s[lo]
  ELSE Min(MinRange(s, lo, (lo + hi) \div 2), MinRange(s, (lo + hi) \div 2 + 1, hi))
RECURSIVE MaxRange(_, _, _)
MaxRange(s, lo, hi) ==
  IF lo = hi THEN s[lo]
  ELSE Max(MaxRange(s, lo, (lo + hi) \div 2), MaxRange(s, (lo + hi) \div 2 + 1, hi))
SeqSum(s) == SumRange(s, 1, Len(s))
SeqMin(s) == MinRange(s, 1, Len(s))
SeqMax(s) == MaxRange(s, 1, Len(s))

\* ------------------------------------------------------------------ strings

Digits == <<"0", "1", "2", "3", "4", "5", "6", "7", "8", "9">>
DigitChars == {Digits[i] : i \in DOMAIN Digits}
DigitVals == [c \in DigitChars |-> (CHOOSE i \in DOMAIN Digits : Digits[i] = c) - 1]
DigitVal(c) == DigitVals[c]

Alphabet ==
  <<" ", "!", "-", ".", "/", "0", "1", "2", "3", "4", "5", "6", "7", "8", "9",
    "<", "=", ">", "A", "B", "C", "D", "N", "P", "S", "T", "H", "Z", "_",
    "a", "b", "c", "e", "i", "l", "m", "n", "o", "p", "r", "s", "t", "+">>
Chars == {Alphabet[i] : i \in DOMAIN Alphabet}
CharCodes == [c \in Chars |-> CHOOSE i \in DOMAIN Alphabet : Alphabet[i] = c]
CharCode(c) == CharCodes[c]

\* str(n) for an integer n
RECURSIVE NatStr(_)
NatStr(n) == IF n < 10 THEN <<Digits[n + 1]>> ELSE NatStr(n \div 10) \o <<Digits[(n % 10) + 1]>>
IntStr(n) == IF n < 0 THEN <<"-">> \o NatStr(-n) ELSE NatStr(n)

\* ------------------------------------------------------------------ catalog

SiteName(l) == <<"S", "i", "t", "e", " ", l>>
SampleName(l, d) == <<"S", "a", "m", "p", "l", "e", " ", l, d>>

\* self.sites, in insertion order
SiteOrder == <<SiteName("A"), SiteName("B"), SiteName("C"), SiteName("D")>>
sites ==
  (SiteName("A") :> <<SampleName("A", "1"), SampleName("A", "2"), SampleName("A", "3")>>) @@
  (SiteName("B") :> <<SampleName("B", "1"), SampleName("B", "2")>>) @@
  (SiteName("C") :> <<SampleName("C", "1"), SampleName("C", "2"), SampleName("C", "3"),
                      SampleName("C", "4")>>) @@
  (SiteName("D") :> <<SampleName("D", "1"), SampleName("D", "2")>>)

\* the (site, specimen) pairs of the catalog, in iteration order
RECURSIVE PairsFrom(_)
PairsFrom(i) ==
  IF i > Len(SiteOrder) THEN <<>>
  ELSE [j \in 1..Len(sites[SiteOrder[i]]) |-> <<SiteOrder[i], sites[SiteOrder[i]][j]>>]
       \o PairsFrom(i + 1)
CatalogPairs == PairsFrom(1)
CatalogSet == {CatalogPairs[i] : i \in DOMAIN CatalogPairs}

\* f"{site}_{specimen}"
CacheKey(site, specimen) == site \o <<"_">> \o specimen
CatalogKeys == {CacheKey(p[1], p[2]) : p \in CatalogSet}

\* ------------------------------------------------------------------ hashing and the random source

\* hash(s) of a string under the process's salt: signed, fixed within one process
RECURSIVE HashTo(_, _, _)
HashTo(h, s, k) ==
  IF k = 0 THEN h ELSE (HashTo(h, s, k - 1) * 31 + CharCode(s[k])) % 8191
Hash(s, salt) == HashTo(salt * 4099 + 7, s, Len(s)) - 4096

\* one step of the random source, and the float in [0, 1) it yields (units of 1/U)
RandNext(s) == (75 * s + 74) % SeedMod
RandFloat(s) == (s * U) \div SeedMod

\* the states of the random source after 1..n draws starting from s
RECURSIVE RandStates(_, _)
RandStates(s, n) ==
  IF n = 0 THEN <<>>
  ELSE IF n = 1 THEN <<RandNext(s)>>
  ELSE LET first == RandStates(s, n \div 2)
       IN first \o RandStates(first[n \div 2], n - n \div 2)

\* np.random.random(n) from state s: the n floats and the state left behind
random(s, n) ==
  LET st == RandStates(s, n)
  IN [vals |-> [k \in 1..n |-> RandFloat(st[k])], rng |-> IF n = 0 THEN s ELSE st[n]]

\* np.random.normal(0, sigma, n): one draw per sample, centred; sigma in units of 1/U
normal(s, sigma, n) ==
  LET r == random(s, n)
  IN [vals |-> [k \in 1..n |-> ((2 * r.vals[k] - U) * sigma) \div U], rng |-> r.rng]

\* ------------------------------------------------------------------ elementary functions (units of 1/U)

\* np.linspace(lo, hi, n)
linspace(lo, hi, n) == [k \in 1..n |-> lo + ((k - 1) * (hi - lo)) \div (n - 1)]

\* sin on [0, pi] (Bhaskara's rational approximation)
SinHalf(r) ==
  LET p == (r * (PiU - r)) \div 100
  IN (16 * p) \div ((49348253 - 4 * p) \div U)
sin(a) ==
  LET r == a % (2 * PiU)
  IN IF r <= PiU THEN SinHalf(r) ELSE -SinHalf(r - PiU)
cos(a) == sin(a + PiU \div 2)

\* x * y and x / y of two fixed-point numbers
Mul(x, y) == (x * y) \div U
Sq(x) == ((x \div 10) * (x \div 10)) \div 100

\* exp(-z) for z >= 0
ExpNeg(z) ==
  LET t2 == ((z \div 100) * (z \div 100)) \div 2
      t3 == (t2 * (z \div 100)) \div 300
  IN (U * U) \div (U + z + t2 + t3)

\* log(v) for v > 0
log(v) ==
  LET w == ((v - U) * U) \div (v + U)
      w3 == Mul(Mul(w, w), w)
  IN 2 * (w + w3 \div 3)

\* f'Plot {plot_num} - {sample_name}'
Title(plot_num, sample_name) ==
  <<"P", "l", "o", "t", " ">> \o IntStr(plot_num) \o <<" ", "-", " ">> \o sample_name

\* ------------------------------------------------------------------ the ten data shapes

\* Each takes the state of the random source and returns the plot data with the
\* state it leaves: [data |-> ..., rng |-> ...].

Single(x, y, plot_num, sample_name) ==
  [x |-> x, y |-> y, title |-> Title(plot_num, sample_name)]

_generate_sin_data(plot_num, sample_name, rng) ==
  LET x == linspace(0, 10 * U, 50)
      r == random(rng, 50)
      y == [k \in 1..50 |-> sin(x[k] + plot_num * (U \div 2)) + r.vals[k] \div 10]
  IN [data |-> Single(x, y, plot_num, sample_name), rng |-> r.rng]

_generate_exp_data(plot_num, sample_name, rng) ==
  LET x == linspace(0, 5 * U, 30)
      r == random(rng, 30)
      y == [k \in 1..30 |-> ExpNeg((x[k] * plot_num * 3) \div 10) + r.vals[k] \div 20]
  IN [data |-> Single(x, y, plot_num, sample_name), rng |-> r.rng]

_generate_multi_line_data(plot_num, sample_name, rng) ==
  LET x == linspace(0, 8 * U, 40)
      r1 == random(rng, 40)
      r2 == random(r1.rng, 40)
      y1 == [k \in 1..40 |-> cos(x[k] + plot_num * (U \div 5)) + r1.vals[k] \div 10]
      y2 == [k \in 1..40 |-> sin(x[k] + (plot_num * 3 * U) \div 10) + r2.vals[k] \div 10]
  IN [data |-> [x |-> x, y1 |-> y1, y2 |-> y2, title |-> Title(plot_num, sample_name)],
      rng |-> r2.rng]

_generate_polynomial_data(plot_num, sample_name, rng) ==
  LET x == linspace(0, 6 * U, 25)
      r == random(rng, 25)
      y == [k \in 1..25 |-> (Sq(x[k]) * plot_num) \div 10 + r.vals[k] \div 20]
  IN [data |-> Single(x, y, plot_num, sample_name), rng |-> r.rng]

_generate_gaussian_data(plot_num, sample_name, rng) ==
  LET x == linspace(-5 * U, 5 * U, 100)
      r == random(rng, 100)
      y == [k \in 1..100 |->
              (((U * U) \div (U + Sq(x[k]))) * plot_num) \div 2 + r.vals[k] \div 50]
  IN [data |-> Single(x, y, plot_num, sample_name), rng |-> r.rng]

_generate_log_data(plot_num, sample_name, rng) ==
  LET x == linspace(U \div 10, 4 * U, 35)
      r == random(rng, 35)
      y == [k \in 1..35 |-> log(x[k] + plot_num * (U \div 2)) + r.vals[k] \div 10]
  IN [data |-> Single(x, y, plot_num, sample_name), rng |-> r.rng]

_generate_damped_oscillation_data(plot_num, sample_name, rng) ==
  LET x == linspace(0, 10 * U, 50)
      r == random(rng, 50)
      y == [k \in 1..50 |->
              Mul(ExpNeg(x[k] \div 5), sin(x[k] * plot_num)) + r.vals[k] \div 20]
  IN [data |-> Single(x, y, plot_num, sample_name), rng |-> r.rng]

_generate_spiral_data(plot_num, sample_name, rng) ==
  LET t == linspace(0, 4 * PiU, 50)
      r == random(rng, 50)
      x == [k \in 1..50 |-> Mul(t[k], cos(t[k] + plot_num * U))]
      y == [k \in 1..50 |-> Mul(t[k], sin(t[k] + plot_num * U)) + r.vals[k] \div 10]
  IN [data |-> Single(x, y, plot_num, sample_name), rng |-> r.rng]

_generate_noise_data(plot_num, sample_name, rng) ==
  LET x == linspace(0, 5 * U, 30)
      r == normal(rng, U \div 2, 30)
      y == [k \in 1..30 |-> plot_num * (U \div 2) + r.vals[k]]
  IN [data |-> Single(x, y, plot_num, sample_name), rng |-> r.rng]

_generate_step_data(plot_num, sample_name, rng) ==
  LET x == linspace(0, 10 * U, 50)
      r == random(rng, 50)
      y == [k \in 1..50 |->
              (IF x[k] < 5 * U THEN (plot_num * 3 * U) \div 10 ELSE (plot_num * 8 * U) \div 10)
              + r.vals[k] \div 10]
  IN [data |-> Single(x, y, plot_num, sample_name), rng |-> r.rng]

\* plot_types[plot_index % len(plot_types)](plot_index + 1, specimen)
PlotFunc(shape, plot_num, sample_name, rng) ==
  CASE shape = 0 -> _generate_sin_data(plot_num, sample_name, rng)
    [] shape = 1 -> _generate_exp_data(plot_num, sample_name, rng)
    [] shape = 2 -> _generate_multi_line_data(plot_num, sample_name, rng)
    [] shape = 3 -> _generate_polynomial_data(plot_num, sample_name, rng)
    [] shape = 4 -> _generate_gaussian_data(plot_num, sample_name, rng)
    [] shape = 5 -> _generate_log_data(plot_num, sample_name, rng)
    [] shape = 6 -> _generate_damped_oscillation_data(plot_num, sample_name, rng)
    [] shape = 7 -> _generate_spiral_data(plot_num, sample_name, rng)
    [] shape = 8 -> _generate_noise_data(plot_num, sample_name, rng)
    [] OTHER -> _generate_step_data(plot_num, sample_name, rng)

\* seed = abs(hash(f"{site_name}_{specimen}_{plot_index}")) % (2**32)
SeedOf(plot_index, specimen, site_name, salt) ==
  Abs(Hash(site_name \o <<"_">> \o specimen \o <<"_">> \o IntStr(plot_index), salt)) % SeedMod

\* the slot generated from the random source as it stands, without re-seeding
GenerateUnseeded(plot_index, specimen, site_name, salt, rng) ==
  PlotFunc(plot_index % 10, plot_index + 1, specimen, rng)

\* _generate_single_plot_data: re-seeds the random source, then generates the slot.
\* The state of the random source on entry (rng) is overwritten by the seed.
_generate_single_plot_data(plot_index, specimen, site_name, salt, rng) ==
  PlotFunc(plot_index % 10, plot_index + 1, specimen, SeedOf(plot_index, specimen, site_name, salt))

\* specimen_data[f'plot{i+1}'] = one: the slots so far with one more, and the
\* random source as generating it left it
WithSlot(got, one) == [data |-> Append(got.data, one.data), rng |-> one.rng]

\* The loop "for i in range(num_plots): specimen_data[f'plot{i+1}'] = ..." from
\* slot i (0-based) on, after the slots in got: slot i is stored under index i + 1.
RECURSIVE GenerateSlots(_, _, _, _, _, _)
GenerateSlots(i, n, specimen, site, salt, got) ==
  IF i >= n THEN got
  ELSE GenerateSlots(i + 1, n, specimen, site, salt,
                     WithSlot(got, _generate_single_plot_data(i, specimen, site, salt, got.rng)))

\* specimen_data = {} before the loop, with the random source as it stands
NoSlots(rng) == [data |-> <<>>, rng |-> rng]

\* self.data_cache[cache_key] = specimen_data
Stored(cache, cache_key, got) ==
  [cache |-> [k \in DOMAIN cache \cup {cache_key} |->
                IF k = cache_key THEN got.data ELSE cache[k]],
   rng |-> got.rng]

\* _initialize_all_data from catalog pair i on; at is the cache and the random
\* source so far
RECURSIVE InitializeFrom(_, _, _, _)
InitializeFrom(i, at, n, salt) ==
  IF i > Len(CatalogPairs) THEN at
  ELSE InitializeFrom(i + 1,
                      Stored(at.cache, CacheKey(CatalogPairs[i][1], CatalogPairs[i][2]),
                             GenerateSlots(0, n, CatalogPairs[i][2], CatalogPairs[i][1], salt,
                                           NoSlots(at.rng))),
                      n, salt)

\* the loop that misses the first specimen of the catalog
InitializeSkipFirst(cache, n, salt, rng) ==
  InitializeFrom(2, [cache |-> cache, rng |-> 42], n, salt)

\* np.random.seed(42), then the loop over the catalog
_initialize_all_data(cache, n, salt, rng) ==
  InitializeFrom(1, [cache |-> cache, rng |-> 42], n, salt)

\* ------------------------------------------------------------------ decimals

\* A float is modelled as a decimal [m, e] standing for m * 10^e.
Dec(m, e) == [m |-> m, e |-> e]

\* floor(log10(abs(val))) for val /= 0
Magnitude(d) == NumDigits(Abs(d.m)) - 1 + d.e

\* sys.float_info.max_10_exp: a float holds no number of 10^(MaxExp10 + 1) or more
MaxExp10 == 308

\* float("inf") and float("-inf"), as decimals beyond every float
Inf(neg) == Dec(IF neg THEN -1 ELSE 1, MaxExp10 + 1)
IsInf(d) == d.m /= 0 /\ Magnitude(d) > MaxExp10

\* n / q with its fraction cut off
DivTruncated(n, q) == n \div q

\* n / q rounded to the nearest integer, ties to even (n >= 0, q > 0)
DivRound(n, q) ==
  LET f == n \div q
      r2 == 2 * (n % q)
  IN IF r2 > q \/ (r2 = q /\ f % 2 = 1) THEN f + 1 ELSE f

\* round(abs(d) * 10^k)
RoundScaled(d, k) ==
  IF d.e + k >= 0 THEN Abs(d.m) * Pow10(d.e + k) ELSE DivRound(Abs(d.m), Pow10(-(d.e + k)))

\* -1, 0, 1 as a < b, a = b, a > b, for a, b >= 0
CmpAbs(a, b) ==
  IF a.m = 0 \/ b.m = 0
  THEN (IF a.m = b.m THEN 0 ELSE IF a.m = 0 THEN -1 ELSE 1)
  ELSE IF Magnitude(a) /= Magnitude(b)
       THEN (IF Magnitude(a) < Magnitude(b) THEN -1 ELSE 1)
       ELSE LET w == Max(NumDigits(a.m), NumDigits(b.m))
                x == a.m * Pow10(w - NumDigits(a.m))
                y == b.m * Pow10(w - NumDigits(b.m))
            IN IF x < y THEN -1 ELSE IF x > y THEN 1 ELSE 0

\* -1, 0, 1 as a < b, a = b, a > b
Cmp(a, b) ==
  IF a.m < 0 /\ b.m < 0 THEN CmpAbs(Dec(-b.m, b.e), Dec(-a.m, a.e))
  ELSE IF a.m < 0 THEN -1
  ELSE IF b.m < 0 THEN 1
  ELSE CmpAbs(a, b)

\* np.mean of samples given in units of 1/U (total over count), as a float
MeanOf(total, count) == Dec((total * 100) \div count, -6)

\* ------------------------------------------------------------------ format_significant_figures, parse_formatted_value

NA == <<"N", "/", "A">>

\* n >= 0 written with at least w digits (zero padded on the left)
Padded(n, w) ==
  LET t == NatStr(n)
  IN [k \in 1..(Max(w, Len(t)) - Len(t)) |-> "0"] \o t

\* f"{x:.{dp}f}" where n = round(abs(x) * 10^dp)
Fixed(neg, n, dp) ==
  (IF neg THEN <<"-">> ELSE <<>>)
  \o NatStr(n \div Pow10(dp))
  \o (IF dp > 0 THEN <<".">> \o Padded(n % Pow10(dp), dp) ELSE <<>>)

\* what the formatter gives in place of a string when int() raises OverflowError
Overflow == <<"OverflowError">>

\* a formatter that keeps magnitude 4 in fixed notation
FormatFixedUpToFive(val, sig_figs) ==
  IF val.m = 0 THEN <<"0", ".", "0", "0", "0", "0">>
  ELSE IF IsInf(val)
  THEN \* np.log10(inf) is inf, and int(inf) raises an error that is neither a
       \* ValueError nor a TypeError
       Overflow
  ELSE LET magnitude == Magnitude(val)
       IN IF magnitude > 4 \/ magnitude < -2
          THEN \* mantissa = val / 10 ** magnitude, f"{mantissa:.{sig_figs-1}f}e{magnitude:+d}"
               Fixed(val.m < 0, RoundScaled(val, sig_figs - 1 - magnitude), sig_figs - 1)
               \o <<"e">> \o (IF magnitude < 0 THEN <<"-">> ELSE <<"+">>) \o NatStr(Abs(magnitude))
          ELSE IF magnitude >= 0
          THEN LET decimal_places == Max(0, sig_figs - magnitude - 1)
               IN Fixed(val.m < 0, RoundScaled(val, decimal_places), decimal_places)
          ELSE LET decimal_places == sig_figs - magnitude - 1
               IN Fixed(val.m < 0, RoundScaled(val, decimal_places), decimal_places)

format_significant_figures(val, sig_figs) ==
  IF val.m = 0 THEN <<"0", ".", "0", "0", "0", "0">>
  ELSE IF IsInf(val)
  THEN \* np.log10(inf) is inf, and int(inf) raises an error that is neither a
       \* ValueError nor a TypeError
       Overflow
  ELSE LET magnitude == Magnitude(val)
       IN IF magnitude >= 4 \/ magnitude < -2
          THEN \* mantissa = val / 10 ** magnitude, f"{mantissa:.{sig_figs-1}f}e{magnitude:+d}"
               Fixed(val.m < 0, RoundScaled(val, sig_figs - 1 - magnitude), sig_figs - 1)
               \o <<"e">> \o (IF magnitude < 0 THEN <<"-">> ELSE <<"+">>) \o NatStr(Abs(magnitude))
          ELSE IF magnitude >= 0
          THEN LET decimal_places == Max(0, sig_figs - magnitude - 1)
               IN Fixed(val.m < 0, RoundScaled(val, decimal_places), decimal_places)
          ELSE LET decimal_places == sig_figs - magnitude - 1
               IN Fixed(val.m < 0, RoundScaled(val, decimal_places), decimal_places)

\* the positions of s that hold no digit
NonDigits(s) == {i \in 1..Len(s) : s[i] \notin DigitChars}

\* the prefix of s before the first of the positions bad
Before(s, bad) ==
  IF bad = {} THEN s ELSE SubSeq(s, 1, (CHOOSE i \in bad : \A j \in bad : i <= j) - 1)

\* the longest prefix of s made of digits
DigitPrefix(s) == Before(s, NonDigits(s))

Drop(s, n) == SubSeq(s, n + 1, Len(s))

\* s after its longest prefix of digits
AfterDigits(s) == Drop(s, Len(DigitPrefix(s)))

\* s without a leading sign
Unsigned(s) == IF s /= <<>> /\ Head(s) \in {"-", "+"} THEN Tail(s) ELSE s

\* the integer written by a string of digits
RECURSIVE DigitsVal(_)
DigitsVal(s) ==
  IF s = <<>> THEN 0 ELSE 10 * DigitsVal(SubSeq(s, 1, Len(s) - 1)) + DigitVal(s[Len(s)])

\* s without its leading zeros
RECURSIVE Significant(_)
Significant(s) == IF s /= <<>> /\ Head(s) = "0" THEN Significant(Tail(s)) ELSE s

\* float(s), once s is split into sign, integer digits ip, fraction digits fp,
\* exponent (hasE, sign, digits ep) and what is left: a number needs a digit in
\* the mantissa, digits after an "e", and nothing left; an integer part of more
\* than MaxExp10 + 1 digits is beyond every float and gives an infinity
Number(neg, ip, fp, hasE, eneg, ep, rest) ==
  IF Len(ip) + Len(fp) > 0 /\ (hasE => ep /= <<>>) /\ rest = <<>>
  THEN IF Len(Significant(ip)) > MaxExp10 + 1
       THEN <<Inf(neg)>>
       ELSE <<Dec(IF neg THEN -DigitsVal(ip \o fp) ELSE DigitsVal(ip \o fp),
                  (IF eneg THEN -DigitsVal(ep) ELSE DigitsVal(ep)) - Len(fp))>>
  ELSE <<>>

\* ... from the exponent on
Exponent(neg, ip, fp, s3) ==
  IF s3 /= <<>> /\ Head(s3) = "e"
  THEN Number(neg, ip, fp, TRUE, Tail(s3) /= <<>> /\ Head(Tail(s3)) = "-",
              DigitPrefix(Unsigned(Tail(s3))), AfterDigits(Unsigned(Tail(s3))))
  ELSE Number(neg, ip, fp, FALSE, FALSE, <<>>, s3)

\* ... from the decimal point on
Mantissa(neg, ip, s2) ==
  IF s2 /= <<>> /\ Head(s2) = "."
  THEN Exponent(neg, ip, DigitPrefix(Tail(s2)), AfterDigits(Tail(s2)))
  ELSE Exponent(neg, ip, <<>>, s2)

\* float(s): <<d>> for the decimal d that s writes, <<>> when s is no number
\* (ValueError). Grammar: [+-] digits [. digits] [e [+-] digits], at least one digit
\* in the mantissa.
float(s) ==
  Mantissa(s /= <<>> /\ Head(s) = "-", DigitPrefix(Unsigned(s)), AfterDigits(Unsigned(s)))

\* parse_formatted_value: float(formatted_str), 0.0 on ValueError
parse_formatted_value(formatted_str) ==
  LET f == float(formatted_str)
  IN IF f = <<>> THEN Dec(0, 0) ELSE f[1]

\* ------------------------------------------------------------------ parse_filter_expression

Whitespace == {" "}

RECURSIVE LStrip(_)
LStrip(s) == IF s /= <<>> /\ Head(s) \in Whitespace THEN LStrip(Tail(s)) ELSE s
RECURSIVE RStrip(_)
RStrip(s) ==
  IF s /= <<>> /\ s[Len(s)] \in Whitespace THEN RStrip(SubSeq(s, 1, Len(s) - 1)) ELSE s
\* s.strip()
strip(s) == RStrip(LStrip(s))

StartsWith(s, prefix) == Len(s) >= Len(prefix) /\ SubSeq(s, 1, Len(prefix)) = prefix

\* s without a leading minus; s without a leading point
SkipMinus(s) == IF s /= <<>> /\ Head(s) = "-" THEN Tail(s) ELSE s
SkipPoint(s) == IF s /= <<>> /\ Head(s) = "." THEN Tail(s) ELSE s

\* a number pattern that takes a leading plus as well
IsNumberSigned(s) ==
  /\ DigitPrefix(Unsigned(s)) /= <<>>
  /\ AfterDigits(SkipPoint(AfterDigits(Unsigned(s)))) = <<>>

\* s matches -?\d+\.?\d* from its first to its last character
IsNumber(s) ==
  /\ DigitPrefix(SkipMinus(s)) /= <<>>
  /\ AfterDigits(SkipPoint(AfterDigits(SkipMinus(s)))) = <<>>

\* re.match(r'^' + prefix + r'\s*(-?\d+\.?\d*)$', expression): <<group 1>> or <<>>
Match(prefix, expression) ==
  IF StartsWith(expression, prefix) /\ IsNumber(LStrip(Drop(expression, Len(prefix))))
  THEN <<LStrip(Drop(expression, Len(prefix)))>>
  ELSE <<>>

\* the patterns with their operators, in order of precedence
patterns ==
  << <<(<<">", "=">>), ">=">>, <<(<<"<", "=">>), "<=">>, <<(<<"!", "=">>), "!=">>,
     <<(<<">">>), ">">>, <<(<<"<">>), "<">>, <<(<<"=">>), "=">>, <<(<<>>), "=">> >>

\* float(match.group(1)): <<value>>, or <<>> for no match or a ValueError
GroupValue(match) == IF match = <<>> THEN <<>> ELSE float(match[1])

\* the loop over patterns from the i-th on: <<operator, value>> or <<>> (None)
RECURSIVE FirstMatch(_, _)
RECURSIVE TryPattern(_, _, _)
TryPattern(i, expression, value) ==
  IF value /= <<>> THEN <<patterns[i][2], value[1]>> ELSE FirstMatch(i + 1, expression)
FirstMatch(i, expression) ==
  IF i > Len(patterns) THEN <<>>
  ELSE TryPattern(i, expression, GroupValue(Match(patterns[i][1], expression)))

parse_filter_expression(expression) ==
  IF expression = <<>> \/ strip(expression) = <<>> THEN <<>>
  ELSE FirstMatch(1, strip(expression))

\* ------------------------------------------------------------------ TestData.__init__

default_labels ==
  <<"Temperature", "Pressure", "Humidity", "Voltage", "Current",
    "Resistance", "Frequency", "Amplitude", "Phase", "Power">>

\* f"Param {i+1}" (labels are only compared, so they are kept as whole strings)
RECURSIVE NatString(_)
NatString(n) == IF n < 10 THEN Digits[n + 1] ELSE NatString(n \div 10) \o Digits[(n % 10) + 1]
ParamLabel(i) == "Param " \o NatString(i + 1)

\* self.parameter_labels for num_params and custom_param_labels (<<>> for None)
ParameterLabels(n, custom_param_labels) ==
  IF custom_param_labels /= <<>> /\ Len(custom_param_labels) >= n
  THEN SubSeq(custom_param_labels, 1, n)
  ELSE [i \in 1..n |-> IF i - 1 < Len(default_labels) THEN default_labels[i] ELSE ParamLabel(i - 1)]

\* ------------------------------------------------------------------ generate_specimen_data_for_data_box

\* what a miss returns: the entry just stored, the cache and the random source
Fetched(stored, cache_key) ==
  [data |-> stored.cache[cache_key], cache |-> stored.cache, rng |-> stored.rng]

\* what a miss would return had it not stored the dataset
NotStored(cache, got) == [data |-> got.data, cache |-> cache, rng |-> got.rng]

\* a get that regenerates on a miss but does not store
GetWithoutStore(cache, site, specimen, n, salt, rng) ==
  IF CacheKey(site, specimen) \in DOMAIN cache
  THEN [data |-> cache[CacheKey(site, specimen)], cache |-> cache, rng |-> rng]
  ELSE NotStored(cache, GenerateSlots(0, n, specimen, site, salt, NoSlots(rng)))

\* a get that drops the entry it hands out on a hit
GetEvicting(cache, site, specimen, n, salt, rng) ==
  IF CacheKey(site, specimen) \in DOMAIN cache
  THEN [data |-> cache[CacheKey(site, specimen)],
        cache |-> [k \in DOMAIN cache \ {CacheKey(site, specimen)} |-> cache[k]],
        rng |-> rng]
  ELSE Fetched(Stored(cache, CacheKey(site, specimen),
                      GenerateSlots(0, n, specimen, site, salt, NoSlots(rng))),
               CacheKey(site, specimen))

\* The dataset of (site, specimen) with the cache and the random source as the
\* call leaves them: a hit returns the stored entry, a miss generates and stores.
generate_specimen_data_for_data_box(cache, site, specimen, n, salt, rng) ==
  IF CacheKey(site, specimen) \in DOMAIN cache
  THEN [data |-> cache[CacheKey(site, specimen)], cache |-> cache, rng |-> rng]
  ELSE Fetched(Stored(cache, CacheKey(site, specimen),
                      GenerateSlots(0, n, specimen, site, salt, NoSlots(rng))),
               CacheKey(site, specimen))

\* get_cache_info
get_cache_info(cache) ==
  LET total_specimens == SeqSum([i \in 1..Len(SiteOrder) |-> Len(sites[SiteOrder[i]])])
      cached_specimens == Cardinality(DOMAIN cache)
  IN [total_specimens |-> total_specimens,
      cached_specimens |-> cached_specimens,
      cache_complete |-> cached_specimens = total_specimens,
      cached_keys |-> DOMAIN cache]

\* ------------------------------------------------------------------ calculate_range_based_averages

NoPoints == "No data points in specified range"
NoValid == "No valid data points found in any plot within specified range"

\* a mask that leaves out the samples on the upper bound
RangeMaskExclusive(x_values, range_down, range_up) ==
  SelectSeq([i \in 1..Len(x_values) |-> i],
            LAMBDA i : x_values[i] >= range_down * U /\ x_values[i] < range_up * U)

\* a mask that takes the two bounds in either order
RangeMaskEitherOrder(x_values, range_down, range_up) ==
  SelectSeq([i \in 1..Len(x_values) |-> i],
            LAMBDA i : /\ x_values[i] >= Min(range_down, range_up) * U
                       /\ x_values[i] <= Max(range_down, range_up) * U)

\* (x_values >= range_down) & (x_values <= range_up), as the indices it selects
range_mask(x_values, range_down, range_up) ==
  SelectSeq([i \in 1..Len(x_values) |-> i],
            LAMBDA i : x_values[i] >= range_down * U /\ x_values[i] <= range_up * U)

\* values[range_mask]
Masked(values, mask) == [j \in 1..Len(mask) |-> values[mask[j]]]

\* the entry of a slot, where an empty single-series slot still pools its y values
SlotEntryPoolsEmpty(data, mask) ==
  IF "y1" \in DOMAIN data /\ "y2" \in DOMAIN data
  THEN IF mask /= <<>>
       THEN LET y1_range == Masked(data.y1, mask)
                y2_range == Masked(data.y2, mask)
                x_range == Masked(data.x, mask)
            IN [entry |-> [type |-> "multi_line",
                           x_range_count |-> Len(x_range),
                           y1_average |-> MeanOf(SeqSum(y1_range), Len(y1_range)),
                           y2_average |-> MeanOf(SeqSum(y2_range), Len(y2_range)),
                           combined_average |->
                             MeanOf(SeqSum(y1_range) + SeqSum(y2_range),
                                    Len(y1_range) + Len(y2_range)),
                           x_range |-> <<SeqMin(x_range), SeqMax(x_range)>>],
                ys |-> y1_range \o y2_range]
       ELSE [entry |-> [type |-> "multi_line", error |-> NoPoints], ys |-> <<>>]
  ELSE IF mask /= <<>>
       THEN LET y_range == Masked(data.y, mask)
                x_range == Masked(data.x, mask)
            IN [entry |-> [type |-> "single_line",
                           x_range_count |-> Len(x_range),
                           y_average |-> MeanOf(SeqSum(y_range), Len(y_range)),
                           y_min |-> SeqMin(y_range),
                           y_max |-> SeqMax(y_range),
                           x_range |-> <<SeqMin(x_range), SeqMax(x_range)>>],
                ys |-> y_range]
       ELSE [entry |-> [type |-> "single_line", error |-> NoPoints], ys |-> data.y]

\* the entry of plot_averages for one slot whose samples in the window are those
\* of mask, with the values it adds to all_y_values
SlotEntry(data, mask) ==
  IF "y1" \in DOMAIN data /\ "y2" \in DOMAIN data
  THEN IF mask /= <<>>
       THEN LET y1_range == Masked(data.y1, mask)
                y2_range == Masked(data.y2, mask)
                x_range == Masked(data.x, mask)
            IN [entry |-> [type |-> "multi_line",
                           x_range_count |-> Len(x_range),
                           y1_average |-> MeanOf(SeqSum(y1_range), Len(y1_range)),
                           y2_average |-> MeanOf(SeqSum(y2_range), Len(y2_range)),
                           combined_average |->
                             MeanOf(SeqSum(y1_range) + SeqSum(y2_range),
                                    Len(y1_range) + Len(y2_range)),
                           x_range |-> <<SeqMin(x_range), SeqMax(x_range)>>],
                ys |-> y1_range \o y2_range]
       ELSE [entry |-> [type |-> "multi_line", error |-> NoPoints], ys |-> <<>>]
  ELSE IF mask /= <<>>
       THEN LET y_range == Masked(data.y, mask)
                x_range == Masked(data.x, mask)
            IN [entry |-> [type |-> "single_line",
                           x_range_count |-> Len(x_range),
                           y_average |-> MeanOf(SeqSum(y_range), Len(y_range)),
                           y_min |-> SeqMin(y_range),
                           y_max |-> SeqMax(y_range),
                           x_range |-> <<SeqMin(x_range), SeqMax(x_range)>>],
                ys |-> y_range]
       ELSE [entry |-> [type |-> "single_line", error |-> NoPoints], ys |-> <<>>]

\* one pass of the loop over the slots
PlotAverage(data, range_up, range_down) ==
  SlotEntry(data, range_mask(data.x, range_down, range_up))

\* the loop over the slots: the result of each pass, as a tuple
RECURSIVE PerSlot(_, _, _, _, _)
PerSlot(specimen_data, i, n, range_up, range_down) ==
  IF i > n THEN <<>>
  ELSE <<IF i \in DOMAIN specimen_data
         THEN PlotAverage(specimen_data[i], range_up, range_down)
         ELSE [ys |-> <<>>]>>
       \o PerSlot(specimen_data, i + 1, n, range_up, range_down)

\* all_y_values after the loop over the slots i..n
RECURSIVE AllY(_, _, _)
AllY(per_slot, i, n) == IF i > n THEN <<>> ELSE per_slot[i].ys \o AllY(per_slot, i + 1, n)

\* range_averages['plot_averages'] after the loop
PlotAverages(per_slot) ==
  [k \in {k \in DOMAIN per_slot : "entry" \in DOMAIN per_slot[k]} |-> per_slot[k].entry]

\* range_averages['overall_statistics']
OverallStatistics(plot_averages, all_y_values, range_up, range_down) ==
  IF all_y_values /= <<>>
  THEN [total_data_points |-> Len(all_y_values),
        overall_average |-> MeanOf(SeqSum(all_y_values), Len(all_y_values)),
        overall_min |-> SeqMin(all_y_values),
        overall_max |-> SeqMax(all_y_values),
        range_coverage |-> IntStr(range_down) \o <<" ", "t", "o", " ">> \o IntStr(range_up),
        valid_plots |->
          Cardinality({k \in DOMAIN plot_averages : "error" \notin DOMAIN plot_averages[k]})]
  ELSE [error |-> NoValid]

\* range_averages once the loop has run
RangeAverages(site, specimen, range_up, range_down, per_slot) ==
  [site |-> site, specimen |-> specimen, range_up |-> range_up, range_down |-> range_down,
   plot_averages |-> PlotAverages(per_slot),
   overall_statistics |->
     OverallStatistics(PlotAverages(per_slot), AllY(per_slot, 1, Len(per_slot)),
                       range_up, range_down)]

\* The result for the dataset specimen_data (the std and median fields of the
\* source are left out: nothing below reads them).
calculate_range_based_averages(specimen_data, n, site, specimen, range_up, range_down) ==
  RangeAverages(site, specimen, range_up, range_down,
                PerSlot(specimen_data, 1, n, range_up, range_down))

\* ------------------------------------------------------------------ get_range_based_specimen_summary

\* summary[label] as the i-th pass of the loop (i is 0-based) assigns it
SummaryValue(range_averages, i, n) ==
  LET plot_index == i
  IN IF plot_index < n
     THEN IF plot_index + 1 \in DOMAIN range_averages.plot_averages
             /\ "error" \notin DOMAIN range_averages.plot_averages[plot_index + 1]
          THEN LET plot_data == range_averages.plot_averages[plot_index + 1]
               IN IF plot_data.type = "multi_line"
                  THEN IF "combined_average" \in DOMAIN plot_data
                       THEN format_significant_figures(plot_data.combined_average, 5)
                       ELSE NA
                  ELSE IF "y_average" \in DOMAIN plot_data
                       THEN format_significant_figures(plot_data.y_average, 5)
                       ELSE NA
          ELSE NA
     ELSE NA

\* The dict the loop builds: a later pass overwrites an earlier one that used the
\* same label.
get_range_based_specimen_summary(range_averages, n, n_params, data_display_labels) ==
  [label \in {data_display_labels[i] : i \in 1..n_params} |->
     LET last == CHOOSE i \in 1..n_params :
                   /\ data_display_labels[i] = label
                   /\ \A j \in 1..n_params : data_display_labels[j] = label => j <= i
     IN SummaryValue(range_averages, last - 1, n)]

\* ------------------------------------------------------------------ check_parameter_condition_independently

\* the index test without its lower bound
InvalidIndexUpperOnly(parameter_index, labels) == parameter_index >= Len(labels)

\* "if parameter_index < 0 or parameter_index >= len(self.parameter_labels)"
InvalidIndex(parameter_index, labels) ==
  parameter_index < 0 \/ parameter_index >= Len(labels)

\* "if not condition_str or not condition_str.strip()"
NoCondition(condition_str) == condition_str = <<>> \/ strip(condition_str) = <<>>

\* comparisons that leave out equality: ">=" as ">" and "<=" as "<"
ComparesStrictly(operator, c) ==
  CASE operator \in {">", ">="} -> c > 0
    [] operator \in {"<", "<="} -> c < 0
    [] OTHER -> TRUE

\* specimen_value > threshold_value and the like, given how the two compare
Compares(operator, c) ==
  CASE operator = ">" -> c > 0
    [] operator = ">=" -> c >= 0
    [] operator = "<" -> c < 0
    [] operator = "<=" -> c <= 0
    [] OTHER -> TRUE

\* what a call hands back: a value, or an exception; None for no call and no value
Returned(v) == [value |-> v]
Raised(e) == [exception |-> e]
None == [op |-> "none"]

\* the result of a comparison with the formatted threshold: formatting raised,
\* or the comparison gave v
OrRaise(threshold_formatted, v) ==
  IF threshold_formatted = Overflow THEN Raised("OverflowError") ELSE Returned(v)

\* a decision that compares numbers for "="
DecideEqualNumeric(specimen_value_str, parsed) ==
  IF parsed = <<>> THEN Returned(TRUE)
  ELSE IF specimen_value_str = NA \/ specimen_value_str = <<>> THEN Returned(TRUE)
  ELSE IF parsed[1] = "="
  THEN OrRaise(format_significant_figures(parsed[2], 5),
               Cmp(parse_formatted_value(specimen_value_str), parsed[2]) = 0)
  ELSE IF parsed[1] = "!="
  THEN OrRaise(format_significant_figures(parsed[2], 5),
               strip(specimen_value_str) /= strip(format_significant_figures(parsed[2], 5)))
  ELSE Returned(Compares(parsed[1], Cmp(parse_formatted_value(specimen_value_str), parsed[2])))

\* a decision that rounds the threshold to the display precision first
DecideRoundedThreshold(specimen_value_str, parsed) ==
  IF parsed = <<>> THEN Returned(TRUE)
  ELSE IF specimen_value_str = NA \/ specimen_value_str = <<>> THEN Returned(TRUE)
  ELSE IF parsed[1] = "="
  THEN OrRaise(format_significant_figures(parsed[2], 5),
               strip(specimen_value_str) = strip(format_significant_figures(parsed[2], 5)))
  ELSE IF parsed[1] = "!="
  THEN OrRaise(format_significant_figures(parsed[2], 5),
               strip(specimen_value_str) /= strip(format_significant_figures(parsed[2], 5)))
  ELSE Returned(Compares(parsed[1], Cmp(parse_formatted_value(specimen_value_str),
                                         parse_formatted_value(format_significant_figures(parsed[2], 5)))))

\* the decision, given the display string and the parsed condition (<<>> for
\* None): what the method returns, or the exception that leaves it (the handler
\* catches ValueError and TypeError only)
Decide(specimen_value_str, parsed) ==
  IF parsed = <<>> THEN Returned(TRUE)
  ELSE IF specimen_value_str = NA \/ specimen_value_str = <<>> THEN Returned(TRUE)
  ELSE IF parsed[1] = "="
  THEN OrRaise(format_significant_figures(parsed[2], 5),
               strip(specimen_value_str) = strip(format_significant_figures(parsed[2], 5)))
  ELSE IF parsed[1] = "!="
  THEN OrRaise(format_significant_figures(parsed[2], 5),
               strip(specimen_value_str) /= strip(format_significant_figures(parsed[2], 5)))
  ELSE Returned(Compares(parsed[1], Cmp(parse_formatted_value(specimen_value_str), parsed[2])))

\* the rest of the method, given the summary of the specimen
EvaluateCondition(specimen_summary, param_label, condition_str) ==
  Decide(IF param_label \in DOMAIN specimen_summary THEN specimen_summary[param_label]
         ELSE <<"0">>,
         parse_filter_expression(condition_str))

EmptyCache == [k \in {} |-> <<>>]

\* ------------------------------------------------------------------ inputs

\* custom_param_labels given to the constructor (<<>> for None)
CustomLabelChoices == {<<>>, <<"Alpha", "Beta", "Alpha">>}

\* a (site, specimen) argument outside the catalog
OutsidePair == <<SiteName("A"), SampleName("Z", "9")>>
\* (site, specimen) arguments
ArgPairs == {CatalogPairs[1], CatalogPairs[4], OutsidePair}
\* (site, specimen) arguments of the generator and of the condition evaluator
FewPairs == {CatalogPairs[1], OutsidePair}

\* (range_up, range_down) arguments: the default window, one beyond every x, one
\* on the last x of the second slot, one on the last x of the third, one reversed
ArgWindows == {<<100, 1>>, <<20, 11>>, <<5, 5>>, <<10, 8>>, <<2, 9>>}
\* (range_up, range_down) arguments of the condition evaluator
FewWindows == {<<100, 1>>, <<20, 11>>, <<5, 5>>}

\* condition strings
ArgConditions ==
  {<<>>, <<" ">>, <<"a", "b", "c">>, <<">", "0">>, <<"<", " ", "0", ".", "5">>,
   <<">", "=", "1">>, <<"=", "1">>, <<"!", "=", "1">>, <<"5">>, <<">", ">", "1">>}

\* a number of more digits than any float holds
LongNumber == [k \in 1..(MaxExp10 + 2) |-> "9"]
\* condition strings on it
LongConditions == {<<"=">> \o LongNumber, <<"!", "=">> \o LongNumber}

\* runs of spaces
Pads == {[k \in 1..n |-> " "] : n \in 0..MaxPad}

\* what stands where the operator is expected, and where the number is
OperatorTexts ==
  {<<>>, <<">", "=">>, <<"<", "=">>, <<"!", "=">>, <<">">>, <<"<">>, <<"=">>,
   <<"=", ">">>, <<"=", "=">>, <<"<", ">">>}
NumberTexts ==
  {<<"5">>, <<"1", "0">>, <<"-", "5">>, <<"5", ".">>, <<"5", ".", "2", "5">>,
   <<"-", "0", ".", "5">>, <<"0", "0", "7">>, <<".", "5">>, <<"-">>, <<>>,
   <<"1", "e", "5">>, <<"5", ".", "2", ".", "5">>, <<"a", "b", "c">>, <<"-", " ", "5">>,
   <<"+", "5">>, <<"-", "-", "5">>, <<"1", "-", "5">>, <<"5", " ", "<", "9">>,
   <<"5", " ", "5">>, <<"5", ",", "3">>}

\* the expressions given to parse_filter_expression
ArgExpressions ==
  {lead \o operator \o gap \o number \o trail :
     lead \in Pads, operator \in OperatorTexts, gap \in Pads, number \in NumberTexts,
     trail \in Pads}

\* the values given to format_significant_figures
Mantissas ==
  (0..MaxSmall) \cup {12345, 123456, 123455, 123465, 100000, 99999, 999994, 999995, 999996,
                      999999}
ArgValues ==
  {Dec(sign * m, e) : sign \in {1, -1}, m \in Mantissas, e \in (-MaxShift)..2}
  \cup {Inf(FALSE)}

\* the strings given to parse_formatted_value: what the formatter writes, and
\* strings that are no number
ArgFormatted ==
  {format_significant_figures(v, 5) : v \in ArgValues \ {Inf(FALSE)}}
  \cup {NA, <<>>, <<"a", "b", "c">>, <<"1", "e">>}

\* "Site → Specimen"
Entry(site, specimen) == site \o <<" ", "→", " ">> \o specimen

\* ------------------------------------------------------------------ state

VARIABLES
  num_plots,          \* self.num_plots
  num_params,         \* self.num_params
  parameter_labels,   \* self.parameter_labels (self.data_display_labels is its copy)
  data_cache,         \* self.data_cache: cache key -> dataset (slot k is 'plot{k}')
  hash_salt,          \* the salt of str.__hash__ in this process
  np_random,          \* the state of numpy's global random source
  pc,                 \* "idle", or "returned" when a call has just returned
  call,               \* the last call: its name and arguments
  ret,                \* what it returned
  window,             \* the main window's data tab: the texts of its boxes (NoWindow without one)
  tree                \* the selection tab's tree: the 'selected' flag of every node

vars ==
  <<num_plots, num_params, parameter_labels, data_cache, hash_salt, np_random, pc, call, ret,
    window, tree>>
config == <<num_plots, num_params, parameter_labels, hash_salt>>
gui == <<window, tree>>

\* a TestData object on its own, without a window
NoWindow == [app |-> "none"]
NoTree == <<>>

data_display_labels == parameter_labels

\* list[i] of Python: an index from -len(list) to len(list) - 1, or an IndexError
InRange(list, i) == -Len(list) <= i /\ i < Len(list)
Item(list, i) == IF i < 0 THEN list[Len(list) + i + 1] ELSE list[i + 1]

\* The state after TestData(plots, params, custom) in a process whose hash salt is salt.
Constructed(plots, params, custom, salt) ==
  /\ num_plots = plots
  /\ num_params = params
  /\ parameter_labels = ParameterLabels(params, custom)
  /\ hash_salt = salt
  /\ \E r \in {_initialize_all_data(EmptyCache, plots, salt, 0)} :
       data_cache = r.cache /\ np_random = r.rng
  /\ pc = "returned"
  /\ call = [op |-> "__init__"]
  /\ ret = None
  /\ window = NoWindow
  /\ tree = NoTree

Init ==
  \E plots \in 0..MaxPlots, params \in 0..MaxParams, custom \in CustomLabelChoices,
     salt \in 0..MaxSalt :
    Constructed(plots, params, custom, salt)

\* TestData(): the defaults of the constructor
DefaultNumPlots == 8
DefaultNumParams == 5

\* the configurations above, and the default one (its eighth slot has x values
\* that do not grow with the index)
InitAgg ==
  \/ Init
  \/ \E salt \in 0..MaxSalt : Constructed(DefaultNumPlots, DefaultNumParams, <<>>, salt)

\* the caller takes the result and goes on
Return ==
  /\ pc = "returned"
  /\ pc' = "idle"
  /\ call' = None
  /\ ret' = None
  /\ UNCHANGED <<config, gui, data_cache, np_random>>

\* a clear that re-populates without emptying first
ClearWithoutEmptying ==
  /\ pc = "idle"
  /\ \E r \in {_initialize_all_data(data_cache, num_plots, hash_salt, np_random)} :
       data_cache' = r.cache /\ np_random' = r.rng
  /\ pc' = "returned"
  /\ call' = [op |-> "clear_data_cache", dropped |-> Cardinality(DOMAIN data_cache)]
  /\ ret' = None
  /\ UNCHANGED <<config, gui>>

clear_data_cache ==
  /\ pc = "idle"
  /\ \E r \in {_initialize_all_data(EmptyCache, num_plots, hash_salt, np_random)} :
       data_cache' = r.cache /\ np_random' = r.rng
  /\ pc' = "returned"
  /\ call' = [op |-> "clear_data_cache", dropped |-> Cardinality(DOMAIN data_cache)]
  /\ ret' = None
  /\ UNCHANGED <<config, gui>>

GetCacheInfo ==
  /\ pc = "idle"
  /\ pc' = "returned"
  /\ call' = [op |-> "get_cache_info"]
  /\ ret' = Returned(get_cache_info(data_cache))
  /\ UNCHANGED <<config, gui, data_cache, np_random>>

GenerateSinglePlotData(plot_index, specimen, site) ==
  /\ pc = "idle"
  /\ \E r \in {_generate_single_plot_data(plot_index, specimen, site, hash_salt, np_random)} :
       ret' = Returned(r.data) /\ np_random' = r.rng
  /\ pc' = "returned"
  /\ call' = [op |-> "_generate_single_plot_data", plot_index |-> plot_index,
              specimen |-> specimen, site |-> site]
  /\ UNCHANGED <<config, gui, data_cache>>

GenerateSpecimenData(site, specimen) ==
  /\ pc = "idle"
  /\ \E r \in {generate_specimen_data_for_data_box(data_cache, site, specimen, num_plots,
                                                      hash_salt, np_random)} :
        /\ ret' = Returned(r.data)
        /\ data_cache' = r.cache
        /\ np_random' = r.rng
        /\ call' = [op |-> "generate_specimen_data_for_data_box", site |-> site,
                    specimen |-> specimen, hit |-> CacheKey(site, specimen) \in DOMAIN data_cache]
  /\ pc' = "returned"
  /\ UNCHANGED <<config, gui>>

CalculateRangeBasedAverages(site, specimen, range_up, range_down) ==
  /\ pc = "idle"
  /\ \E r \in {generate_specimen_data_for_data_box(data_cache, site, specimen, num_plots,
                                                      hash_salt, np_random)} :
        /\ ret' = Returned(calculate_range_based_averages(r.data, num_plots, site, specimen,
                                                          range_up, range_down))
        /\ data_cache' = r.cache
        /\ np_random' = r.rng
  /\ pc' = "returned"
  /\ call' = [op |-> "calculate_range_based_averages", site |-> site, specimen |-> specimen,
              range_up |-> range_up, range_down |-> range_down]
  /\ UNCHANGED <<config, gui>>

GetRangeBasedSpecimenSummary(site, specimen, range_up, range_down) ==
  /\ pc = "idle"
  /\ \E r \in {generate_specimen_data_for_data_box(data_cache, site, specimen, num_plots,
                                                      hash_salt, np_random)} :
        /\ ret' = Returned(get_range_based_specimen_summary(
                             calculate_range_based_averages(r.data, num_plots, site, specimen,
                                                            range_up, range_down),
                             num_plots, num_params, data_display_labels))
        /\ data_cache' = r.cache
        /\ np_random' = r.rng
  /\ pc' = "returned"
  /\ call' = [op |-> "get_range_based_specimen_summary", site |-> site, specimen |-> specimen,
              range_up |-> range_up, range_down |-> range_down]
  /\ UNCHANGED <<config, gui>>

CheckParameterConditionIndependently(site, specimen, parameter_index, condition_str, range_up, range_down) ==
  /\ pc = "idle"
  /\ IF InvalidIndex(parameter_index, parameter_labels)
     THEN /\ ret' = Returned(TRUE)
          /\ UNCHANGED <<data_cache, np_random>>
     ELSE IF ~InRange(parameter_labels, parameter_index)
     THEN /\ ret' = Raised("IndexError")
          /\ UNCHANGED <<data_cache, np_random>>
     ELSE IF NoCondition(condition_str)
     THEN /\ ret' = Returned(TRUE)
          /\ UNCHANGED <<data_cache, np_random>>
     ELSE \E r \in {generate_specimen_data_for_data_box(data_cache, site, specimen, num_plots,
                                                           hash_salt, np_random)} :
             /\ ret' = EvaluateCondition(
                         get_range_based_specimen_summary(
                           calculate_range_based_averages(r.data, num_plots, site, specimen,
                                                          range_up, range_down),
                           num_plots, num_params, data_display_labels),
                         Item(parameter_labels, parameter_index),
                         condition_str)
             /\ data_cache' = r.cache
             /\ np_random' = r.rng
  /\ pc' = "returned"
  /\ call' = [op |-> "check_parameter_condition_independently", site |-> site,
              specimen |-> specimen, parameter_index |-> parameter_index,
              condition_str |-> condition_str, range_up |-> range_up, range_down |-> range_down]
  /\ UNCHANGED <<config, gui>>

\* the operations every client may interleave with the others
CacheOps ==
  \/ Return
  \/ clear_data_cache
  \/ \E p \in ArgPairs : GenerateSpecimenData(p[1], p[2])

\* the cache and the generator
Next ==
  \/ CacheOps
  \/ GetCacheInfo
  \/ \E p \in FewPairs, i \in 0..MaxPlots : GenerateSinglePlotData(i, p[2], p[1])

Spec == Init /\ [][Next]_vars

\* the range aggregator and the summary builder
NextAgg ==
  \/ CacheOps
  \/ \E p \in ArgPairs, w \in ArgWindows : CalculateRangeBasedAverages(p[1], p[2], w[1], w[2])
  \/ \E p \in ArgPairs, w \in ArgWindows : GetRangeBasedSpecimenSummary(p[1], p[2], w[1], w[2])

SpecAgg == InitAgg /\ [][NextAgg]_vars

\* the display string the data box shows for parameter i of a specimen ("N/A"
\* for an index without a label)
ShownValue(site, specimen, i, range_up, range_down) ==
  IF i < 0 \/ i >= Len(parameter_labels) THEN NA
  ELSE get_range_based_specimen_summary(
         calculate_range_based_averages(
           generate_specimen_data_for_data_box(data_cache, site, specimen, num_plots,
                                               hash_salt, np_random).data,
           num_plots, site, specimen, range_up, range_down),
         num_plots, num_params, data_display_labels)[parameter_labels[i + 1]]

\* conditions typed from a value on display: the value itself, and the value
\* with one more digit
ConditionsOn(shown) ==
  IF shown = NA THEN {}
  ELSE {<<"=">> \o shown, <<"=">> \o shown \o <<"1">>, <<"!", "=">> \o shown,
        <<">">> \o shown, <<">", "=">> \o shown \o <<"1">>, <<"<", "=">> \o shown}

\* the condition evaluator
NextCond ==
  \/ CacheOps
  \/ /\ pc = "idle"
     /\ \E p \in FewPairs, w \in FewWindows, i \in -1..MaxParams :
          \E c \in ArgConditions \cup ConditionsOn(ShownValue(p[1], p[2], i, w[1], w[2])) :
            CheckParameterConditionIndependently(p[1], p[2], i, c, w[1], w[2])
  \/ /\ pc = "idle"
     /\ \E c \in LongConditions, w \in {<<100, 1>>, <<20, 11>>} :
          CheckParameterConditionIndependently(CatalogPairs[1][1], CatalogPairs[1][2], 0, c,
                                               w[1], w[2])

SpecCond == Init /\ [][NextCond]_vars

\* ------------------------------------------------------------------ the formatter and the parsers on their own

\* TestData(num_plots=0, num_params=0), and a client about to make the call c
Pending(c) ==
  /\ num_plots = 0
  /\ num_params = 0
  /\ parameter_labels = ParameterLabels(0, <<>>)
  /\ hash_salt = 0
  /\ \E r \in {_initialize_all_data(EmptyCache, 0, 0, 0)} :
       data_cache = r.cache /\ np_random = r.rng
  /\ pc = "called"
  /\ call = c
  /\ ret = None
  /\ window = NoWindow
  /\ tree = NoTree

InitText ==
  \/ \E expression \in ArgExpressions :
       Pending([op |-> "parse_filter_expression", expression |-> expression])
  \/ \E value \in ArgValues :
       Pending([op |-> "format_significant_figures", value |-> value, sig_figs |-> 5])
  \/ \E formatted_str \in ArgFormatted :
       Pending([op |-> "parse_formatted_value", formatted_str |-> formatted_str])

ParseFilterExpression ==
  /\ pc = "called"
  /\ call.op = "parse_filter_expression"
  /\ ret' = Returned(parse_filter_expression(call.expression))
  /\ pc' = "returned"
  /\ UNCHANGED <<config, gui, data_cache, np_random, call>>

FormatSignificantFigures ==
  /\ pc = "called"
  /\ call.op = "format_significant_figures"
  /\ \E r \in {format_significant_figures(call.value, call.sig_figs)} :
       ret' = OrRaise(r, r)
  /\ pc' = "returned"
  /\ UNCHANGED <<config, gui, data_cache, np_random, call>>

ParseFormattedValue ==
  /\ pc = "called"
  /\ call.op = "parse_formatted_value"
  /\ ret' = Returned(parse_formatted_value(call.formatted_str))
  /\ pc' = "returned"
  /\ UNCHANGED <<config, gui, data_cache, np_random, call>>

NextText ==
  \/ ParseFilterExpression
  \/ FormatSignificantFigures
  \/ ParseFormattedValue

SpecText == InitText /\ [][NextText]_vars

\* ------------------------------------------------------------------ the selection

\* An item of selected_items: a string (kind "str", its text), a dict with the
\* keys 'site' and 'specimen' (kind "dict", <<>> being the empty string ''), or
\* anything else (kind "other").
StrItem(text) == [kind |-> "str", text |-> text, site |-> <<>>, specimen |-> <<>>]
DictItem(site, specimen) == [kind |-> "dict", text |-> <<>>, site |-> site, specimen |-> specimen]
OtherItem == [kind |-> "other", text |-> <<>>, site |-> <<>>, specimen |-> <<>>]

\* ' → '
Arrow == <<" ", "→", " ">>

\* text.split(' → '), from position start on, looking for the separator from i on
RECURSIVE SplitFrom(_, _, _)
\* the positions from i on where the separator begins
Found(text, i) ==
  {m \in i..(Len(text) - Len(Arrow) + 1) : SubSeq(text, m, m + Len(Arrow) - 1) = Arrow}
\* the part from start up to the separator at m, and the split of the rest
SplitAt(text, start, m) ==
  <<SubSeq(text, start, m - 1)>> \o SplitFrom(text, m + Len(Arrow), m + Len(Arrow))
\* the split at the first separator from i on, if there is one
SplitFirst(text, start, found) ==
  IF found = {} THEN <<SubSeq(text, start, Len(text))>>
  ELSE SplitAt(text, start, CHOOSE m \in found : \A l \in found : m <= l)
SplitFrom(text, start, i) ==
  CHOOSE parts \in {SplitFirst(text, start, found) : found \in {Found(text, i)}} : TRUE
split(text) == SplitFrom(text, 1, 1)

\* the stripped parts of a string item with ' → ' in it and two parts, else <<>>
Parts(parts) == IF Len(parts) = 2 THEN <<strip(parts[1]), strip(parts[2])>> ELSE <<>>

\* the specimens the loop of generate_single_site_plot_data appends, from the
\* k-th item on
RECURSIVE SiteSpecimensFrom(_, _, _)
SiteSpecimensFrom(k, selected_items, site_name) ==
  IF k > Len(selected_items) THEN <<>>
  ELSE (IF selected_items[k].kind = "str"
        THEN (IF Parts(split(selected_items[k].text)) /= <<>>
                 /\ Parts(split(selected_items[k].text))[1] = site_name
              THEN <<Parts(split(selected_items[k].text))[2]>>
              ELSE <<>>)
        ELSE IF selected_items[k].kind = "dict" /\ selected_items[k].site = site_name
        THEN <<selected_items[k].specimen>>
        ELSE <<>>)
       \o SiteSpecimensFrom(k + 1, selected_items, site_name)

\* ------------------------------------------------------------------ statistics

\* the statistics are computed in units of 10^-5: the float d in units
InUnits(d) == IF d.m < 0 THEN -RoundScaled(d, 5) ELSE RoundScaled(d, 5)

\* total / n rounded to the nearest integer (n > 0)
SignedDivRound(total, n) ==
  IF total < 0 THEN -DivRound(-total, n) ELSE DivRound(total, n)

\* the integer square root of n, between lo and hi
RECURSIVE SqrtBetween(_, _, _)
SqrtBetween(n, lo, hi) ==
  IF lo >= hi THEN lo
  ELSE IF ((lo + hi + 1) \div 2) * ((lo + hi + 1) \div 2) <= n
  THEN SqrtBetween(n, (lo + hi + 1) \div 2, hi)
  ELSE SqrtBetween(n, lo, ((lo + hi + 1) \div 2) - 1)
Sqrt(n) == SqrtBetween(n, 0, 46340)

\* np.mean and np.std of values given in units
Mean(units) == SignedDivRound(SeqSum(units), Len(units))
SquaredDeviations(units, mean_val) ==
  [k \in DOMAIN units |-> (units[k] - mean_val) * (units[k] - mean_val)]
Std(units) == Sqrt(DivRound(SeqSum(SquaredDeviations(units, Mean(units))), Len(units)))

\* the stat bundle of a parameter, given its mean and its std in units
Bundle(mean_val, std_val, count) ==
  [mean |-> Dec(mean_val, -5), std |-> Dec(std_val, -5),
   upper_1sigma |-> Dec(mean_val + std_val, -5),
   lower_1sigma |-> Dec(mean_val - std_val, -5),
   count |-> count]

\* the values of parameter param_idx (0-based) in the lists that have one
ParamValues(lists, param_idx) ==
  LET having == SelectSeq(lists, LAMBDA values : param_idx < Len(values))
  IN [k \in DOMAIN having |-> InUnits(having[k][param_idx + 1])]

\* a stat bundle that counts only the values that are not 0.0
ParamStatCountingNonZero(param_values) ==
  IF param_values /= <<>>
  THEN Bundle(Mean(param_values), Std(param_values),
              Cardinality({k \in DOMAIN param_values : param_values[k] /= 0}))
  ELSE Bundle(0, 0, 0)

\* the stat bundle of param_values
ParamStat(param_values) ==
  IF param_values /= <<>>
  THEN Bundle(Mean(param_values), Std(param_values), Len(param_values))
  ELSE Bundle(0, 0, 0)

\* the loop over the parameters, for the non-empty value lists
Stats(lists) ==
  IF lists /= <<>>
  THEN [i \in 1..Min(num_params, Len(lists[1])) |-> ParamStat(ParamValues(lists, i - 1))]
  ELSE <<>>

\* a values list that leaves out the labels whose display string is "N/A"
SpecimenValuesParseable(specimen_summary) ==
  LET shown == SelectSeq([i \in 1..Min(Len(data_display_labels), num_params) |->
                            IF data_display_labels[i] \in DOMAIN specimen_summary
                            THEN specimen_summary[data_display_labels[i]] ELSE NA],
                         LAMBDA value_str : value_str /= NA)
  IN [i \in DOMAIN shown |-> parse_formatted_value(shown[i])]

\* the values list of a specimen: one number per label, 0.0 for "N/A"
SpecimenValues(specimen_summary) ==
  [i \in 1..Min(Len(data_display_labels), num_params) |->
     IF data_display_labels[i] \in DOMAIN specimen_summary
        /\ specimen_summary[data_display_labels[i]] /= NA
     THEN parse_formatted_value(specimen_summary[data_display_labels[i]])
     ELSE Dec(0, 0)]

\* one pass of the loop over the specimens, given the dataset r the cache hands out
WithSpecimen(at, site_name, specimen, range_up, range_down, r) ==
  [cache |-> r.cache, rng |-> r.rng,
   list |-> Append(at.list,
              [specimen |-> specimen,
               values |-> SpecimenValues(
                            get_range_based_specimen_summary(
                              calculate_range_based_averages(r.data, num_plots, site_name,
                                                             specimen, range_up, range_down),
                              num_plots, num_params, data_display_labels))])]

\* the loop over the specimens from the k-th on; at is [cache, rng, list]
RECURSIVE SpecimenLoop(_, _, _, _, _, _)
SpecimenLoop(k, specimens, site_name, range_up, range_down, at) ==
  IF k > Len(specimens) THEN at
  ELSE SpecimenLoop(k + 1, specimens, site_name, range_up, range_down,
         WithSpecimen(at, site_name, specimens[k], range_up, range_down,
                      generate_specimen_data_for_data_box(at.cache, site_name, specimens[k],
                                                          num_plots, hash_salt, at.rng)))

\* the non-empty value lists of specimen_data_list
ValueLists(specimen_data_list) ==
  LET filled == SelectSeq(specimen_data_list, LAMBDA d : d.values /= <<>>)
  IN [k \in DOMAIN filled |-> filled[k].values]

\* ------------------------------------------------------------------ generate_single_site_plot_data

SelectASite ==
  <<"S", "e", "l", "e", "c", "t", " ", "a", " ", "s", "i", "t", "e", ".", ".", ".">>

\* the specimens the statistics are computed over: the selected ones of the
\* site, or all of the site when none is selected; <<>> for a site that is not
\* in the catalog
SiteSpecimens(site_name, selected_items) ==
  IF SiteSpecimensFrom(1, selected_items, site_name) /= <<>>
  THEN SiteSpecimensFrom(1, selected_items, site_name)
  ELSE IF site_name \in DOMAIN sites THEN sites[site_name] ELSE <<>>

\* plot_data, with the cache and the random source as the loop leaves them
SitePlotData(site_name, site_specimens, range_up, range_down, at) ==
  [cache |-> at.cache, rng |-> at.rng,
   data |-> [site |-> site_name,
             specimens |-> site_specimens,
             range_up |-> range_up,
             range_down |-> range_down,
             plot_averages |-> at.list,
             parameter_stats |-> Stats(ValueLists(at.list)),
             specimen_count |-> Len(site_specimens)]]

\* [data, cache, rng]: what the method returns (<<>> for {}) and the cache and
\* the random source as it leaves them
generate_single_site_plot_data(cache, rng, site_name, selected_items, range_up, range_down) ==
  IF site_name = <<>> \/ site_name = SelectASite
  THEN [cache |-> cache, rng |-> rng, data |-> <<>>]
  ELSE IF SiteSpecimens(site_name, selected_items) = <<>>
  THEN [cache |-> cache, rng |-> rng, data |-> <<>>]
  ELSE SitePlotData(site_name, SiteSpecimens(site_name, selected_items), range_up, range_down,
                    SpecimenLoop(1, SiteSpecimens(site_name, selected_items), site_name,
                                 range_up, range_down,
                                 [cache |-> cache, rng |-> rng, list |-> <<>>]))

GenerateSingleSitePlotData(site_name, selected_items, range_up, range_down) ==
  /\ pc = "idle"
  /\ \E r \in {generate_single_site_plot_data(data_cache, np_random, site_name, selected_items,
                                                 range_up, range_down)} :
       /\ ret' = Returned(r.data)
       /\ data_cache' = r.cache
       /\ np_random' = r.rng
  /\ pc' = "returned"
  /\ call' = [op |-> "generate_single_site_plot_data", site_name |-> site_name,
              selected_items |-> selected_items, range_up |-> range_up,
              range_down |-> range_down]
  /\ UNCHANGED <<config, gui>>

\* ------------------------------------------------------------------ generate_all_sites_plot_data

\* the (site, specimen) an item adds to sites_specimens, <<>> for an item that
\* adds none
Recognised(item) ==
  IF item.kind = "str" THEN CHOOSE pair \in {Parts(parts) : parts \in {split(item.text)}} : TRUE
  ELSE IF item.kind = "dict" /\ item.site /= <<>> /\ item.specimen /= <<>>
  THEN <<item.site, item.specimen>>
  ELSE <<>>

\* sites_specimens, as the <<site, specimens>> of its keys in insertion order,
\* once pair is added
WithPair(groups, pair) ==
  IF pair = <<>> THEN groups
  ELSE IF \E g \in DOMAIN groups : groups[g][1] = pair[1]
  THEN [g \in DOMAIN groups |->
          IF groups[g][1] = pair[1] THEN <<groups[g][1], Append(groups[g][2], pair[2])>>
          ELSE groups[g]]
  ELSE Append(groups, <<pair[1], <<pair[2]>> >>)

\* the loop over the items from the k-th on
RECURSIVE Grouped(_, _, _)
Grouped(k, selected_items, groups) ==
  IF k > Len(selected_items) THEN groups
  ELSE Grouped(k + 1, selected_items,
               CHOOSE with \in {WithPair(so_far, pair) :
                                  so_far \in {groups},
                                  pair \in {Recognised(selected_items[k])}} : TRUE)

\* self.sites.copy()
AllSites == [i \in DOMAIN SiteOrder |-> <<SiteOrder[i], sites[SiteOrder[i]]>>]

\* sites_specimens after the fallback
OrAllSites(sites_specimens) == IF sites_specimens = <<>> THEN AllSites ELSE sites_specimens
SitesSpecimens(selected_items) ==
  CHOOSE groups \in {OrAllSites(found) : found \in {Grouped(1, selected_items, <<>>)}} : TRUE

\* the means of the stat bundles
Averages(site_stats) == [i \in DOMAIN site_stats |-> site_stats[i].mean]

\* plot_data['sites_data'][site_name]
SiteEntry(specimens, site_data, site_stats) ==
  [specimens |-> site_data,
   site_stats |-> site_stats,
   site_averages |-> Averages(site_stats),
   specimen_count |-> Len(specimens)]

\* one pass of the loop over the sites, given what the loop over its specimens
\* (done) found
WithSite(at, site_name, specimens, done) ==
  [cache |-> done.cache, rng |-> done.rng,
   sites_data |->
     [name \in DOMAIN at.sites_data \cup {site_name} |->
        IF name = site_name
        THEN SiteEntry(specimens, done.list, Stats(ValueLists(done.list)))
        ELSE at.sites_data[name]],
   all_site_averages |->
     IF Stats(ValueLists(done.list)) /= <<>>
     THEN Append(at.all_site_averages, Averages(Stats(ValueLists(done.list))))
     ELSE at.all_site_averages]

\* the loop over the sites from the k-th on; at is [cache, rng, sites_data,
\* all_site_averages]
RECURSIVE SiteLoop(_, _, _, _, _)
SiteLoop(k, groups, range_up, range_down, at) ==
  IF k > Len(groups) THEN at
  ELSE SiteLoop(k + 1, groups, range_up, range_down,
         WithSite(at, groups[k][1], groups[k][2],
                  SpecimenLoop(1, groups[k][2], groups[k][1], range_up, range_down,
                               [cache |-> at.cache, rng |-> at.rng, list |-> <<>>])))

\* plot_data once the sites are done (global_stats stays empty without site
\* averages)
AllSitesPlotData(range_up, range_down, at) ==
  [cache |-> at.cache, rng |-> at.rng,
   data |-> [range_up |-> range_up,
             range_down |-> range_down,
             sites_data |-> at.sites_data,
             global_stats |-> Stats(at.all_site_averages)]]

generate_all_sites_plot_data(cache, rng, selected_items, range_up, range_down) ==
  AllSitesPlotData(range_up, range_down,
    SiteLoop(1, SitesSpecimens(selected_items), range_up, range_down,
             [cache |-> cache, rng |-> rng, sites_data |-> EmptyCache,
              all_site_averages |-> <<>>]))

GenerateAllSitesPlotData(selected_items, range_up, range_down) ==
  /\ pc = "idle"
  /\ \E r \in {generate_all_sites_plot_data(data_cache, np_random, selected_items, range_up,
                                               range_down)} :
       /\ ret' = Returned(r.data)
       /\ data_cache' = r.cache
       /\ np_random' = r.rng
  /\ pc' = "returned"
  /\ call' = [op |-> "generate_all_sites_plot_data", selected_items |-> selected_items,
              range_up |-> range_up, range_down |-> range_down]
  /\ UNCHANGED <<config, gui>>

\* ------------------------------------------------------------------ the statistics aggregator

\* site_name arguments: a catalog site, none, the placeholder of the site box,
\* and a site that is not in the catalog
ArgSites == {SiteName("A"), <<>>, SelectASite, SiteName("Z")}

\* selected_items arguments
ArgSelections ==
  {<<>>,
   <<StrItem(Entry(SiteName("A"), SampleName("A", "1"))),
     StrItem(Entry(SiteName("A"), SampleName("A", "2")))>>,
   <<DictItem(SiteName("A"), SampleName("A", "1")),
     StrItem(<<" ">> \o Entry(SiteName("B"), <<" ">> \o SampleName("B", "1") \o <<" ">>))>>,
   <<StrItem(SiteName("A")),
     StrItem(Entry(Entry(SiteName("A"), SampleName("A", "1")), SampleName("A", "2"))),
     OtherItem,
     DictItem(SiteName("B"), <<>>)>>,
   <<StrItem(Entry(SiteName("B"), SampleName("B", "1")))>>,
   <<StrItem(Entry(SiteName("A"), SampleName("A", "1"))),
     DictItem(SiteName("A"), SampleName("A", "1"))>>,
   <<DictItem(SiteName("A"), <<>>)>>}

NextSite ==
  \/ /\ pc = "idle"
     /\ \E site_name \in ArgSites, selected_items \in ArgSelections, w \in FewWindows :
          GenerateSingleSitePlotData(site_name, selected_items, w[1], w[2])
  \/ /\ pc = "idle"
     /\ \E selected_items \in ArgSelections, w \in FewWindows :
          GenerateAllSitesPlotData(selected_items, w[1], w[2])
  \/ Return
  \/ clear_data_cache

SpecSite == Init /\ [][NextSite]_vars

\* ------------------------------------------------------------------ every reader of the cache

\* (range_up, range_down) arguments: the windows of the condition evaluator,
\* and two with range_down above range_up
ReadWindows == FewWindows \cup {<<2, 9>>, <<1, 100>>}

\* condition strings: an order comparison, an equality, and a threshold no
\* float holds
ReadConditions == {<<">", "0">>, <<"=", "1">>} \cup LongConditions

\* selected_items arguments: nothing, and a specimen outside the catalog
FewSelections == {<<>>, <<StrItem(Entry(OutsidePair[1], OutsidePair[2]))>>}

\* the range aggregator, the summary builder, the condition evaluator and the
\* site and global statistics, side by side
NextRead ==
  \/ CacheOps
  \/ /\ pc = "idle"
     /\ \E p \in FewPairs, w \in ReadWindows : CalculateRangeBasedAverages(p[1], p[2], w[1], w[2])
  \/ /\ pc = "idle"
     /\ \E p \in FewPairs, w \in ReadWindows : GetRangeBasedSpecimenSummary(p[1], p[2], w[1], w[2])
  \/ /\ pc = "idle"
     /\ \E p \in FewPairs, w \in ReadWindows, i \in 0..MaxParams, c \in ReadConditions :
          CheckParameterConditionIndependently(p[1], p[2], i, c, w[1], w[2])
  \/ /\ pc = "idle"
     /\ \E selected_items \in FewSelections, w \in {<<100, 1>>, <<20, 11>>} :
          GenerateSingleSitePlotData(SiteName("A"), selected_items, w[1], w[2])
  \/ /\ pc = "idle"
     /\ \E selected_items \in FewSelections, w \in {<<100, 1>>, <<20, 11>>} :
          GenerateAllSitesPlotData(selected_items, w[1], w[2])

SpecRead == Init /\ [][NextRead]_vars

\* ------------------------------------------------------------------ gets on names with an underscore

\* two (site, specimen) arguments that differ in where the underscore falls
UnderscorePairs ==
  {<<SiteName("A"), SampleName("A", "1") \o <<"_">> \o SampleName("A", "2")>>,
   <<SiteName("A") \o <<"_">> \o SampleName("A", "1"), SampleName("A", "2")>>}

NextKeys ==
  \/ Return
  \/ clear_data_cache
  \/ \E p \in UnderscorePairs \cup {CatalogPairs[1], OutsidePair} : GenerateSpecimenData(p[1], p[2])

SpecKeys == Init /\ [][NextKeys]_vars

\* ------------------------------------------------------------------ the main window

SelectASpecimen ==
  <<"S", "e", "l", "e", "c", "t", " ", "a", " ", "s", "p", "e", "c", "i", "m", "e", "n",
    ".", ".", ".">>

\* MainWindow(): the data tab after DataTab.__init__ and reset_controls. The
\* site box lists the placeholder and the sites, the specimen box the
\* placeholder alone; the range boxes are created without items, so their text
\* is ''; there is one empty filter input per parameter label.
MainWindow(labels) ==
  [app |-> "main",
   site_combo |-> SelectASite,
   specimen_items |-> <<SelectASpecimen>>,
   specimen_combo |-> SelectASpecimen,
   range_up_combo |-> <<>>,
   range_down_combo |-> <<>>,
   filter_inputs |-> [i \in DOMAIN labels |-> <<>>]]

\* A handler under way: the window, the cache and the random source as it has
\* left them so far, and the requests it has made to the TestData object.
Running(w, cache, rng) ==
  [window |-> w, cache |-> cache, rng |-> rng, requests |-> <<>>, error |-> "none"]

\* what a reading of the range boxes leaves: the window, or the exception
\* that left the try statement
Reading(up, down) == [range_up |-> up, range_down |-> down, error |-> "none"]
Unread(exception) == [range_up |-> 0, range_down |-> 0, error |-> exception]

\* one request: the method, the pair or selection it is for, the two texts the
\* range boxes held when the window was read, and the window passed on (the
\* request is not made when the reading ended in an exception)
Request(op, subject, texts, range) ==
  [op |-> op, subject |-> subject, texts |-> texts, range_up |-> range.range_up,
   range_down |-> range.range_down, error |-> range.error]

\* the handler at, once it has made request and the get that goes with it
\* (got); an exception ends the handler
Requested(at, request, got) ==
  IF at.error /= "none" THEN at
  ELSE IF request.error /= "none"
  THEN [at EXCEPT !.error = request.error, !.requests = Append(@, request)]
  ELSE [at EXCEPT !.cache = got.cache, !.rng = got.rng, !.requests = Append(@, request)]

\* what the handler at hands to its caller
Outcome(at) == IF at.error = "none" THEN None ELSE Raised(at.error)

\* ------------------------------------------------------------------ int()

\* what is left of the stripped text after a sign
AfterSign(t) == IF t /= <<>> /\ Head(t) \in {"-", "+"} THEN Tail(t) ELSE t

\* whether int(text) returns: a run of digits, after a sign or not, between
\* spaces or not
IsInt(text) ==
  /\ AfterSign(strip(text)) /= <<>>
  /\ \A k \in DOMAIN AfterSign(strip(text)) : AfterSign(strip(text))[k] \in DigitChars

RECURSIVE DigitsValue(_)
DigitsValue(u) ==
  IF u = <<>> THEN 0 ELSE DigitsValue(SubSeq(u, 1, Len(u) - 1)) * 10 + DigitVal(u[Len(u)])

\* int(text), where it returns
int(text) ==
  IF Head(strip(text)) = "-" THEN -DigitsValue(AfterSign(strip(text)))
  ELSE DigitsValue(AfterSign(strip(text)))

\* the texts of the two range boxes
RangeTexts(w) == <<w.range_up_combo, w.range_down_combo>>

\* ------------------------------------------------------------------ the selection preview

\* PreviewManager.get_current_range_settings: both defaults are assigned first,
\* then range_up and range_down one after the other inside one try
get_current_range_settings(texts) ==
  IF ~IsInt(texts[1]) THEN Reading(100, 1)
  ELSE IF ~IsInt(texts[2]) THEN Reading(int(texts[1]), 1)
  ELSE Reading(int(texts[1]), int(texts[2]))

\* the gets of generate_all_sites_plot_data: one for every specimen of every
\* group, in order; at is [cache, rng]
\* the cache and the random source of a handler under way
Source(at) == [cache |-> at.cache, rng |-> at.rng]

RECURSIVE GetEach(_, _, _, _)
GetNext(groups, g, k, at) ==
  IF g > Len(groups) THEN at
  ELSE IF k > Len(groups[g][2]) THEN GetEach(groups, g + 1, 1, at)
  ELSE GetEach(groups, g, k + 1,
               Source(generate_specimen_data_for_data_box(at.cache, groups[g][1],
                                                          groups[g][2][k], num_plots, hash_salt,
                                                          at.rng)))
GetEach(groups, g, k, at) ==
  CHOOSE after \in {GetNext(groups, g, k, before) : before \in {at}} : TRUE

\* update_all_site_preview: the statistics of the selection over the window
\* read from the range boxes (the result is drawn, not kept)
update_all_site_preview(at, selected_items) ==
  Requested(at,
            Request("generate_all_sites_plot_data", selected_items, RangeTexts(at.window),
                    get_current_range_settings(RangeTexts(at.window))),
            CHOOSE after \in {GetEach(groups, 1, 1, [cache |-> at.cache, rng |-> at.rng]) :
                               groups \in {SitesSpecimens(selected_items)}} : TRUE)

\* update_selection_preview: the site box of the preview stays on its
\* placeholder, so the single-site preview is skipped
update_selection_preview(at, selected_items) == update_all_site_preview(at, selected_items)

\* ------------------------------------------------------------------ the selection tree

SpecimenNode(name, selected) == [type |-> "specimen", name |-> name, selected |-> selected]
SiteNode(name, selected, children) ==
  [type |-> "site", name |-> name, selected |-> selected, children |-> children]

\* populate_tree: one top-level item per site, one child per specimen, none selected
populate_tree ==
  [i \in DOMAIN SiteOrder |->
     SiteNode(SiteOrder[i], FALSE,
              [j \in DOMAIN sites[SiteOrder[i]] |-> SpecimenNode(sites[SiteOrder[i]][j], FALSE)])]

\* update_children_selection
update_children_selection(parent_item, selected) ==
  [parent_item EXCEPT !.children = [j \in DOMAIN @ |-> [@[j] EXCEPT !.selected = selected]]]

\* a parent that is marked as soon as one child is selected
UpdateParentAnySelected(parent) ==
  [parent EXCEPT !.selected = \E j \in DOMAIN parent.children : parent.children[j].selected]

\* update_parent_selection: the parent is selected when no child is unselected
update_parent_selection(parent) ==
  [parent EXCEPT !.selected = \A j \in DOMAIN parent.children : parent.children[j].selected]

\* the tree after on_item_clicked on the item at path: <<i>> is the i-th site,
\* <<i, j>> its j-th specimen
on_item_clicked(items, path) ==
  IF Len(path) = 1
  THEN [items EXCEPT ![path[1]] =
          update_children_selection([@ EXCEPT !.selected = ~@], ~items[path[1]].selected)]
  ELSE [items EXCEPT ![path[1]] =
          update_parent_selection([@ EXCEPT !.children[path[2]].selected = ~@])]

\* traverse_tree over the children of parent from the j-th on
RECURSIVE TraverseChildren(_, _)
TraverseChildren(parent, j) ==
  IF j > Len(parent.children) THEN <<>>
  ELSE (IF parent.children[j].selected /\ parent.children[j].type = "specimen"
        THEN <<Entry(parent.name, parent.children[j].name)>>
        ELSE <<>>)
       \o TraverseChildren(parent, j + 1)

\* get_selected_items from the i-th top-level item on: a site node adds nothing
\* for itself
RECURSIVE TraverseFrom(_, _)
TraverseFrom(items, i) ==
  IF i > Len(items) THEN <<>>
  ELSE TraverseChildren(items[i], 1) \o TraverseFrom(items, i + 1)

get_selected_items(items) == TraverseFrom(items, 1)

\* the list as handed to the preview
AsItems(texts) == [k \in DOMAIN texts |-> StrItem(texts[k])]
SelectedItems(items) == CHOOSE list \in {AsItems(texts) : texts \in {get_selected_items(items)}} : TRUE

\* select_all_items, deselect_all_items
select_all_items(items) ==
  [i \in DOMAIN items |-> update_children_selection([items[i] EXCEPT !.selected = TRUE], TRUE)]
deselect_all_items(items) ==
  [i \in DOMAIN items |-> update_children_selection([items[i] EXCEPT !.selected = FALSE], FALSE)]

\* the paths of the items of the tree
Paths ==
  {<<i>> : i \in DOMAIN SiteOrder}
  \cup UNION {{<<i, j>> : j \in DOMAIN sites[SiteOrder[i]]} : i \in DOMAIN SiteOrder}

\* a handler of the selection tab has run: the tree is as it left it, and the
\* preview has been updated for the new selection
SelectionChanged(op, items) ==
  /\ tree' = items
  /\ \E at \in {update_selection_preview(Running(window, data_cache, np_random), selected) :
                 selected \in {SelectedItems(tree')}} :
       /\ data_cache' = at.cache
       /\ np_random' = at.rng
       /\ call' = [op |-> op, requests |-> at.requests]
       /\ ret' = Outcome(at)
  /\ pc' = "returned"
  /\ UNCHANGED <<config, window>>

OnItemClicked(path) == SelectionChanged("on_item_clicked", on_item_clicked(tree, path))
SelectAllItems == SelectionChanged("select_all_items", select_all_items(tree))
DeselectAllItems == SelectionChanged("deselect_all_items", deselect_all_items(tree))

\* the data part of the state after TestData(plots, params, custom)
TestDataOf(plots, params, custom, salt) ==
  /\ num_plots = plots
  /\ num_params = params
  /\ parameter_labels = ParameterLabels(params, custom)
  /\ hash_salt = salt
  /\ \E r \in {_initialize_all_data(EmptyCache, plots, salt, 0)} :
       data_cache = r.cache /\ np_random = r.rng

\* main.py: MainWindow(), whose data tab makes its own TestData()
InitMain ==
  /\ TestDataOf(DefaultNumPlots, DefaultNumParams, <<>>, 0)
  /\ window = MainWindow(ParameterLabels(DefaultNumParams, <<>>))
  /\ tree = populate_tree
  /\ pc = "returned"
  /\ call = [op |-> "MainWindow", requests |-> <<>>]
  /\ ret = None

\* ------------------------------------------------------------------ the data tab

\* "try: range_up = int(...); range_down = int(...) except caught: range_up =
\* 100; range_down = 1": int() of a string returns or raises ValueError
TryRange(texts, caught) ==
  IF IsInt(texts[1]) /\ IsInt(texts[2]) THEN Reading(int(texts[1]), int(texts[2]))
  ELSE IF "ValueError" \in caught THEN Reading(100, 1)
  ELSE Unread("ValueError")

\* a reading whose fallback is the window of one point
ReadRangeFallbackOne(texts) ==
  IF IsInt(texts[1]) /\ IsInt(texts[2]) THEN Reading(int(texts[1]), int(texts[2]))
  ELSE Reading(1, 1)

\* the reading of the data tab and of the colour functions of the application
\* manager: "except (ValueError, AttributeError)"
ReadRange(texts) == TryRange(texts, {"ValueError", "AttributeError"})

\* the reading of on_range_changed of the application manager: "except
\* ValueError"
ReadRangeOnChange(texts) == TryRange(texts, {"ValueError"})

\* whether the texts of the site box and the specimen box name a selection
BothSelected(site, specimen) ==
  /\ site /= SelectASite
  /\ specimen /= SelectASpecimen
  /\ site /= <<>>
  /\ specimen /= <<>>

\* load_specimen_plots: the dataset over the full range, drawn
load_specimen_plots(at, site, specimen) ==
  \* generate_specimen_data_full_range is the get
  [at EXCEPT !.cache = generate_specimen_data_for_data_box(at.cache, site, specimen, num_plots,
                                                          hash_salt, at.rng).cache,
             !.rng = generate_specimen_data_for_data_box(at.cache, site, specimen, num_plots,
                                                        hash_salt, at.rng).rng]

\* the summary of (site, specimen) over the window read from the range boxes,
\* written to the data boxes
Summarised(at, site, specimen, range) ==
  Requested(at,
            Request("get_range_based_specimen_summary", <<site, specimen>>,
                    RangeTexts(at.window), range),
            generate_specimen_data_for_data_box(at.cache, site, specimen, num_plots, hash_salt,
                                                at.rng))

\* load_specimen_data_boxes
load_specimen_data_boxes(at, site, specimen) ==
  Summarised(at, site, specimen, ReadRange(RangeTexts(at.window)))

\* one call of check_parameter_condition_independently for data box i: the
\* summary, and with it the cache, is reached only with a label for the index
\* and a condition
Checked(at, site, specimen, i, condition_str, range) ==
  Requested(at,
            Request("check_parameter_condition_independently",
                    <<site, specimen, i, condition_str>>, RangeTexts(at.window), range),
            IF InvalidIndex(i, parameter_labels) \/ NoCondition(condition_str) THEN Source(at)
            ELSE generate_specimen_data_for_data_box(at.cache, site, specimen, num_plots,
                                                     hash_salt, at.rng))

\* "for i, data_box in enumerate(data_boxes): if i < len(parameter_labels) and
\* i < len(filter_inputs): ..." from box i on (there is a data box and a filter
\* input for every label)
RECURSIVE ColourBoxes(_, _, _, _, _)
ColourBoxes(at, site, specimen, i, range) ==
  IF i >= Len(at.window.filter_inputs) THEN at
  ELSE ColourBoxes(IF i < Len(parameter_labels)
                   THEN Checked(at, site, specimen, i, strip(at.window.filter_inputs[i + 1]),
                                range)
                   ELSE at,
                   site, specimen, i + 1, range)

\* DataTab.apply_independent_parameter_colors
apply_independent_parameter_colors(at, site, specimen) ==
  ColourBoxes(at, site, specimen, 0, ReadRange(RangeTexts(at.window)))

\* load_specimen_data_complete
load_specimen_data_complete(at, site, specimen) ==
  IF site = <<>> \/ specimen = <<>> \/ site = SelectASite \/ specimen = SelectASpecimen THEN at
  ELSE apply_independent_parameter_colors(
         load_specimen_data_boxes(load_specimen_plots(at, site, specimen), site, specimen),
         site, specimen)

\* DataTab.on_specimen_changed
on_specimen_changed(at, specimen) ==
  IF specimen = <<>> \/ specimen = SelectASpecimen THEN at
  ELSE IF at.window.site_combo /= <<>> /\ at.window.site_combo /= SelectASite
  THEN load_specimen_data_complete(at, at.window.site_combo, specimen)
  ELSE at

\* specimen_combo.setCurrentText(text): the text of a box that is not editable
\* changes only to one of its items, and the signal is sent only on a change
SetSpecimen(at, text) ==
  IF text = at.window.specimen_combo
     \/ \A k \in DOMAIN at.window.specimen_items : at.window.specimen_items[k] /= text
  THEN at
  ELSE on_specimen_changed([at EXCEPT !.window.specimen_combo = text], text)

\* update_specimen_combo: the box is cleared and filled again, which leaves it
\* on its first item, the placeholder (on_specimen_changed returns at once for
\* '' and for the placeholder)
update_specimen_combo(at, site) ==
  [at EXCEPT !.window.specimen_items =
               IF site = SelectASite \/ site \notin DOMAIN sites THEN <<SelectASpecimen>>
               ELSE <<SelectASpecimen>> \o sites[site],
             !.window.specimen_combo = SelectASpecimen]

\* the rest of on_site_changed, once the specimen box is filled again
AfterUpdate(at, site) ==
  IF at.window.specimen_combo /= <<>> /\ at.window.specimen_combo /= SelectASpecimen
  THEN load_specimen_data_complete(at, site, at.window.specimen_combo)
  ELSE at

\* DataTab.on_site_changed (the second definition of the class, which is the
\* one bound to the signal)
on_site_changed(at, site) ==
  IF site = <<>> \/ site = SelectASite THEN at
  ELSE AfterUpdate(update_specimen_combo(at, site), site)

\* the items of the site box
SiteItems == {SelectASite} \cup {SiteOrder[i] : i \in DOMAIN SiteOrder}

\* site_combo.setCurrentText(text)
SetSite(at, text) ==
  IF text = at.window.site_combo \/ text \notin SiteItems THEN at
  ELSE on_site_changed([at EXCEPT !.window.site_combo = text], text)

\* the index of item in list, 0 when it is not in it
IndexIn(list, item) ==
  IF \E k \in DOMAIN list : list[k] = item
  THEN CHOOSE k \in DOMAIN list : list[k] = item /\ \A l \in 1..(k - 1) : list[l] /= item
  ELSE 0

\* the step of navigate_next from the k-th specimen of the i-th site
NextFrom(at, i, k) ==
  IF k < Len(sites[SiteOrder[i]]) THEN SetSpecimen(at, sites[SiteOrder[i]][k + 1])
  ELSE IF i < Len(SiteOrder)
  THEN (IF sites[SiteOrder[i + 1]] /= <<>>
        THEN SetSpecimen(SetSite(at, SiteOrder[i + 1]), sites[SiteOrder[i + 1]][1])
        ELSE SetSite(at, SiteOrder[i + 1]))
  ELSE at

\* an arrow key that stops at the end of the site
NavigateWithinSite(at) ==
  IF at.window.site_combo = <<>> \/ at.window.site_combo = SelectASite THEN at
  ELSE IF at.window.site_combo \in DOMAIN sites
          /\ IndexIn(sites[at.window.site_combo], at.window.specimen_combo) > 0
          /\ IndexIn(sites[at.window.site_combo], at.window.specimen_combo)
               < Len(sites[at.window.site_combo])
  THEN SetSpecimen(at, sites[at.window.site_combo]
                         [IndexIn(sites[at.window.site_combo], at.window.specimen_combo) + 1])
  ELSE at

\* DataTab.navigate_next
navigate_next(at) ==
  IF at.window.site_combo = <<>> \/ at.window.site_combo = SelectASite THEN at
  ELSE IF at.window.site_combo \in DOMAIN sites
          /\ IndexIn(sites[at.window.site_combo], at.window.specimen_combo) > 0
  THEN NextFrom(at, IndexIn(SiteOrder, at.window.site_combo),
                IndexIn(sites[at.window.site_combo], at.window.specimen_combo))
  ELSE at

\* the step of navigate_previous from the k-th specimen of the i-th site
PreviousFrom(at, i, k) ==
  IF k > 1 THEN SetSpecimen(at, sites[SiteOrder[i]][k - 1])
  ELSE IF i > 1
  THEN (IF sites[SiteOrder[i - 1]] /= <<>>
        THEN SetSpecimen(SetSite(at, SiteOrder[i - 1]),
                         sites[SiteOrder[i - 1]][Len(sites[SiteOrder[i - 1]])])
        ELSE SetSite(at, SiteOrder[i - 1]))
  ELSE at

\* DataTab.navigate_previous
navigate_previous(at) ==
  IF at.window.site_combo = <<>> \/ at.window.site_combo = SelectASite THEN at
  ELSE IF at.window.site_combo \in DOMAIN sites
          /\ IndexIn(sites[at.window.site_combo], at.window.specimen_combo) > 0
  THEN PreviousFrom(at, IndexIn(SiteOrder, at.window.site_combo),
                    IndexIn(sites[at.window.site_combo], at.window.specimen_combo))
  ELSE at

\* DataTab.on_range_changed (no apply_filter_colors_callback is ever set)
on_range_changed(at) ==
  IF BothSelected(at.window.site_combo, at.window.specimen_combo)
  THEN load_specimen_data_boxes(at, at.window.site_combo, at.window.specimen_combo)
  ELSE at

\* DataTab.update_single_parameter_color
update_single_parameter_color(at, site, specimen, parameter_index, condition_str) ==
  IF parameter_index >= Len(at.window.filter_inputs) \/ parameter_index >= Len(parameter_labels)
  THEN at
  ELSE Checked(at, site, specimen, parameter_index, condition_str,
               ReadRange(RangeTexts(at.window)))

\* DataTab.on_individual_filter_changed
on_individual_filter_changed(at, parameter_index, condition_text) ==
  IF BothSelected(at.window.site_combo, at.window.specimen_combo)
  THEN update_single_parameter_color(at, at.window.site_combo, at.window.specimen_combo,
                                     parameter_index, condition_text)
  ELSE at

\* ------------------------------------------------------------------ the test application

\* apply_filter_colors_and_text_colors_independent of _setup_test_functionality
apply_filter_colors_and_text_colors_independent(at, site, specimen) ==
  ColourBoxes(at, site, specimen, 0, ReadRange(RangeTexts(at.window)))

\* on_range_changed of _setup_test_functionality: the data boxes are updated
\* for a selection only, the colours are applied after the "if", whatever the
\* two boxes show
app_on_range_changed(at) ==
  apply_filter_colors_and_text_colors_independent(
    IF BothSelected(at.window.site_combo, at.window.specimen_combo)
    THEN Summarised(at, at.window.site_combo, at.window.specimen_combo,
                    ReadRangeOnChange(RangeTexts(at.window)))
    ELSE at,
    at.window.site_combo, at.window.specimen_combo)

\* update_single_parameter_color of _setup_test_functionality
app_update_single_parameter_color(at, parameter_index, condition_str) ==
  IF ~BothSelected(at.window.site_combo, at.window.specimen_combo) THEN at
  ELSE IF parameter_index >= Len(at.window.filter_inputs)
          \/ parameter_index >= Len(parameter_labels)
  THEN at
  ELSE Checked(at, at.window.site_combo, at.window.specimen_combo, parameter_index,
               condition_str, ReadRange(RangeTexts(at.window)))

\* on_filter_text_changed of setup_filter_listeners
on_filter_text_changed(at, parameter_index, text) ==
  app_update_single_parameter_color(at, parameter_index, strip(text))

\* the slots of currentTextChanged of a range box, in the order they were
\* connected: the data tab's, then the application manager's
RangeChanged(at) ==
  IF at.window.app = "test" THEN app_on_range_changed(on_range_changed(at))
  ELSE on_range_changed(at)

\* range_up_combo.setCurrentText(text) and addItem(text) on an empty box
SetRangeUp(at, text) ==
  IF text = at.window.range_up_combo THEN at
  ELSE RangeChanged([at EXCEPT !.window.range_up_combo = text])
SetRangeDown(at, text) ==
  IF text = at.window.range_down_combo THEN at
  ELSE RangeChanged([at EXCEPT !.window.range_down_combo = text])

\* config.py RANGE_VALUES
RangeMin == 1
RangeMax == 100
RangeDefaultUp == 100
RangeDefaultDown == 1

\* populate_range_lists: both boxes are cleared, the upper one is filled from
\* max down to min (its first item becomes its text), then the lower one from
\* min up to max, then both are set to the defaults
populate_range_lists(at) ==
  SetRangeDown(SetRangeUp(SetRangeDown(SetRangeUp(SetRangeDown(SetRangeUp(at, <<>>), <<>>),
                                                  IntStr(RangeMax)),
                                       IntStr(RangeMin)),
                          IntStr(RangeDefaultUp)),
               IntStr(RangeDefaultDown))

\* create_test_application, from the window MainWindow() made: the filter
\* inputs and the data boxes are made again, one per parameter, the listeners
\* of the application manager are connected, then the range boxes are filled
\* (populate_site_list leaves the site box on its placeholder)
create_test_application(at) ==
  populate_range_lists(
    [at EXCEPT !.window.app = "test",
               !.window.filter_inputs = [i \in DOMAIN parameter_labels |-> <<>>]])

\* ------------------------------------------------------------------ events of the window

\* a handler has run to its end: the window, the cache and the random source
\* are as it left them, and the requests it made are on record
Handled(op, at) ==
  /\ window' = at.window
  /\ data_cache' = at.cache
  /\ np_random' = at.rng
  /\ call' = [op |-> op, requests |-> at.requests]
  /\ pc' = "returned"
  /\ ret' = Outcome(at)
  /\ UNCHANGED <<config, tree>>

Now == Running(window, data_cache, np_random)

\* the user picks an item of the site box
SiteActivated(site) ==
  /\ site /= window.site_combo
  /\ \E at \in {SetSite(Now, site)} : Handled("on_site_changed", at)

\* the user picks an item of the specimen box
SpecimenActivated(specimen) ==
  /\ specimen /= window.specimen_combo
  /\ \E k \in DOMAIN window.specimen_items : window.specimen_items[k] = specimen
  /\ \E at \in {SetSpecimen(Now, specimen)} : Handled("on_specimen_changed", at)

\* the user picks an item of a range box (the boxes of MainWindow() have none)
RangeUpActivated(value) ==
  /\ window.app = "test"
  /\ IntStr(value) /= window.range_up_combo
  /\ \E at \in {SetRangeUp(Now, IntStr(value))} : Handled("on_range_up_changed", at)
RangeDownActivated(value) ==
  /\ window.app = "test"
  /\ IntStr(value) /= window.range_down_combo
  /\ \E at \in {SetRangeDown(Now, IntStr(value))} : Handled("on_range_down_changed", at)

\* the user changes the text of filter input i (0-based)
FilterEdited(i, text) ==
  /\ i < Len(window.filter_inputs)
  /\ text /= window.filter_inputs[i + 1]
  /\ \E edited \in {[Now EXCEPT !.window.filter_inputs[i + 1] = text]} :
       \E at \in {IF window.app = "test" THEN on_filter_text_changed(edited, i, text)
                  ELSE on_individual_filter_changed(edited, i, text)} :
         Handled("textChanged", at)

\* an arrow key
NavigateNext == \E at \in {navigate_next(Now)} : Handled("navigate_next", at)
NavigatePrevious == \E at \in {navigate_previous(Now)} : Handled("navigate_previous", at)

\* TestAppManager().create_test_application(plots, params, custom), in a
\* process whose hash salt is salt
InitTest(plots, params, custom, salt) ==
  /\ TestDataOf(plots, params, custom, salt)
  /\ \E at \in {create_test_application(
                  Running(MainWindow(ParameterLabels(DefaultNumParams, <<>>)), data_cache,
                          np_random))} :
       /\ window = at.window
       /\ call = [op |-> "create_test_application", requests |-> at.requests]
       /\ ret = Outcome(at)
  /\ tree = populate_tree
  /\ pc = "returned"

\* the test applications of the runs: few plots, so that a state stays small
MaxGuiPlots == 1
InitTree == \E salt \in 0..MaxSalt : InitTest(MaxGuiPlots, 1, <<>>, salt)

\* the site box, the specimen box and the arrow keys
NextNav ==
  \/ \E site \in SiteItems : SiteActivated(site)
  \/ \E k \in DOMAIN window.specimen_items : SpecimenActivated(window.specimen_items[k])
  \/ NavigateNext
  \/ NavigatePrevious

SpecNav == InitTree /\ [][NextNav]_vars

\* the items of the range boxes and the filter texts the runs use
UpChoices == {RangeMax, RangeMax - 1}
DownChoices == {RangeMin, RangeMin + 1}
FilterTexts == {<<>>, <<">", "0">>}

\* the runs change the range with a pair selected, and without one as long as
\* the cache holds no key from outside the catalog
FewPhantoms ==
  \/ DOMAIN data_cache \subseteq CatalogKeys
  \/ BothSelected(window.site_combo, window.specimen_combo)

\* main.py's window or a test application
InitApp == InitMain \/ InitTest(MaxGuiPlots, 1, <<>>, 0)

\* the events of the data tab and the two buttons of the selection tab
NextApp ==
  \/ \E site \in SiteItems : SiteActivated(site)
  \/ \E k \in DOMAIN window.specimen_items : SpecimenActivated(window.specimen_items[k])
  \/ \E value \in UpChoices : FewPhantoms /\ RangeUpActivated(value)
  \/ \E value \in DownChoices : FewPhantoms /\ RangeDownActivated(value)
  \/ \E text \in FilterTexts : FilterEdited(0, text)
  \/ NavigateNext
  \/ NavigatePrevious
  \/ SelectAllItems
  \/ DeselectAllItems

SpecApp == InitApp /\ [][NextApp]_vars

\* the selection tab
NextTree ==
  \/ \E path \in Paths : OnItemClicked(path)
  \/ SelectAllItems
  \/ DeselectAllItems

SpecTree == InitTree /\ [][NextTree]_vars

\* ------------------------------------------------------------------ properties of the cache and the generator

CallKey == CacheKey(call.site, call.specimen)

\* C1: after construction the cache holds exactly the catalog: get_cache_info
\* reports as many cached specimens as the catalog has, cache_complete is true,
\* and every catalog (site, specimen) has its own entry with num_plots slots.
C1_CacheCompleteAfterInit ==
  call.op = "__init__" =>
    /\ get_cache_info(data_cache).cached_specimens = Len(CatalogPairs)
    /\ get_cache_info(data_cache).cache_complete
    /\ DOMAIN data_cache = CatalogKeys
    /\ Cardinality(CatalogKeys) = Len(CatalogPairs)
    /\ \A k \in CatalogKeys : DOMAIN data_cache[k] = 1..num_plots

C1_Witness ==
  /\ call.op = "__init__"
  /\ num_plots = MaxPlots
  /\ Cardinality(DOMAIN data_cache) = 11

\* C2: a get never fails. It returns the entry stored under the key, with
\* num_plots slots; on a miss the entry is added and nothing else changes, on a
\* hit neither the cache nor the random source changes (nothing is regenerated).
C2_GetSelfHealing ==
  [][(pc = "idle" /\ call'.op = "generate_specimen_data_for_data_box") =>
       LET key == CacheKey(call'.site, call'.specimen)
       IN /\ "value" \in DOMAIN ret'
          /\ DOMAIN ret'.value = 1..num_plots
          /\ key \in DOMAIN data_cache'
          /\ data_cache'[key] = ret'.value
          /\ \A k \in DOMAIN data_cache : k \in DOMAIN data_cache' /\ data_cache'[k] = data_cache[k]
          /\ DOMAIN data_cache' = DOMAIN data_cache \cup {key}
          /\ key \in DOMAIN data_cache => (data_cache' = data_cache /\ np_random' = np_random)
    ]_vars

\* a hit on a pair outside the catalog: an earlier miss stored it
C2_Witness ==
  /\ call.op = "generate_specimen_data_for_data_box"
  /\ <<call.site, call.specimen>> = OutsidePair
  /\ call.hit
  /\ num_plots > 0
  /\ ret.value = data_cache[CallKey]

\* C3: clear_data_cache leaves exactly the catalog's keys, whatever the cache
\* held before, and cache_complete is true.
C3_ClearRebuildsCatalog ==
  call.op = "clear_data_cache" =>
    /\ DOMAIN data_cache = CatalogKeys
    /\ get_cache_info(data_cache).cache_complete
    /\ \A k \in CatalogKeys : DOMAIN data_cache[k] = 1..num_plots

\* a clear of a cache that held an entry outside the catalog
C3_Witness ==
  /\ call.op = "clear_data_cache"
  /\ call.dropped > Len(CatalogPairs)
  /\ CacheKey(OutsidePair[1], OutsidePair[2]) \notin DOMAIN data_cache

\* C4: a call of _generate_single_plot_data returns the same title and x/y
\* arrays as the earlier call for the same (site, specimen, slot) whose result
\* the cache holds, whatever was generated in between.
C4_GeneratorDeterministic ==
  (/\ call.op = "_generate_single_plot_data"
   /\ CallKey \in DOMAIN data_cache
   /\ call.plot_index < num_plots)
  => ret.value = data_cache[CallKey][call.plot_index + 1]

\* a regeneration of a catalog slot after a miss has generated another specimen
C4_Witness ==
  /\ call.op = "_generate_single_plot_data"
  /\ <<call.site, call.specimen>> = CatalogPairs[1]
  /\ call.plot_index = 2
  /\ num_plots > 2
  /\ CacheKey(OutsidePair[1], OutsidePair[2]) \in DOMAIN data_cache
  /\ ret.value.y1 = data_cache[CallKey][3].y1


\* ------------------------------------------------------------------ properties of the aggregator and the summary

\* the dataset the last call read
CallData == data_cache[CallKey]

\* the samples of a slot inside the window, stated on the samples themselves
Selected(data, range_up, range_down) ==
  {i \in DOMAIN data.x : range_down * U <= data.x[i] /\ data.x[i] <= range_up * U}
SumOver(values, S) == SeqSum([i \in DOMAIN values |-> IF i \in S THEN values[i] ELSE 0])
IsDual(data) == "y1" \in DOMAIN data
\* the number and the sum of the y values of a slot inside the window
PointsIn(data, range_up, range_down) ==
  Cardinality(Selected(data, range_up, range_down)) * (IF IsDual(data) THEN 2 ELSE 1)
YSumIn(data, range_up, range_down) ==
  IF IsDual(data)
  THEN SumOver(data.y1, Selected(data, range_up, range_down))
       + SumOver(data.y2, Selected(data, range_up, range_down))
  ELSE SumOver(data.y, Selected(data, range_up, range_down))

\* C5: a slot with no x inside the window has an error marker and adds nothing
\* to the pooled statistics: total_data_points, valid_plots and the pooled mean
\* count only the slots with samples inside; when no slot has any, the overall
\* statistics are an error marker. The call returns in every case.
C5_EmptySlotsExcluded ==
  call.op = "calculate_range_based_averages" =>
    LET up == call.range_up
        down == call.range_down
        res == ret.value
        valid == {k \in 1..num_plots : Selected(CallData[k], up, down) /= {}}
        points == SeqSum([k \in 1..num_plots |-> PointsIn(CallData[k], up, down)])
        total == SeqSum([k \in 1..num_plots |-> YSumIn(CallData[k], up, down)])
    IN /\ "value" \in DOMAIN ret
       /\ DOMAIN res.plot_averages = 1..num_plots
       /\ \A k \in 1..num_plots : k \notin valid <=> "error" \in DOMAIN res.plot_averages[k]
       /\ IF valid = {}
          THEN DOMAIN res.overall_statistics = {"error"}
          ELSE /\ "error" \notin DOMAIN res.overall_statistics
               /\ res.overall_statistics.total_data_points = points
               /\ res.overall_statistics.valid_plots = Cardinality(valid)
               /\ res.overall_statistics.overall_average = MeanOf(total, points)

\* some slots are empty and some are not
C5_Witness ==
  /\ call.op = "calculate_range_based_averages"
  /\ num_plots >= 2
  /\ "error" \in DOMAIN ret.value.plot_averages[1]
  /\ "error" \notin DOMAIN ret.value.plot_averages[2]
  /\ ret.value.overall_statistics.valid_plots < num_plots

\* C6: the window is inclusive at both ends. A slot's statistics are those of
\* exactly the samples with range_down <= x <= range_up, wherever they lie in the
\* array; x_range_count is their number; a dual-series slot selects y1 and y2 by
\* the same samples.
C6_WindowInclusive ==
  call.op = "calculate_range_based_averages" =>
    \A k \in 1..num_plots :
      LET data == CallData[k]
          S == Selected(data, call.range_up, call.range_down)
          entry == ret.value.plot_averages[k]
      IN IF S = {} THEN "error" \in DOMAIN entry
         ELSE /\ "error" \notin DOMAIN entry
              /\ entry.x_range_count = Cardinality(S)
              /\ entry.x_range[1] \in {data.x[i] : i \in S}
              /\ entry.x_range[2] \in {data.x[i] : i \in S}
              /\ \A i \in S : entry.x_range[1] <= data.x[i] /\ data.x[i] <= entry.x_range[2]
              /\ IF IsDual(data)
                 THEN /\ entry.y1_average = MeanOf(SumOver(data.y1, S), Cardinality(S))
                      /\ entry.y2_average = MeanOf(SumOver(data.y2, S), Cardinality(S))
                      /\ entry.combined_average
                           = MeanOf(SumOver(data.y1, S) + SumOver(data.y2, S), 2 * Cardinality(S))
                 ELSE entry.y_average = MeanOf(SumOver(data.y, S), Cardinality(S))

\* the window [8, 10] holds exactly the last sample (x = 8) of the dual-series slot
C6_Witness ==
  /\ call.op = "calculate_range_based_averages"
  /\ call.range_up = 10
  /\ call.range_down = 8
  /\ num_plots >= 3
  /\ ret.value.plot_averages[3].type = "multi_line"
  /\ ret.value.plot_averages[3].x_range_count = 1
  /\ ret.value.plot_averages[3].x_range = <<8 * U, 8 * U>>

\* C7: the summary has exactly num_params keys, and every value is "N/A" or a
\* number as the formatter writes it.
C7_SummaryHasNumParamsKeys ==
  call.op = "get_range_based_specimen_summary" =>
    /\ Cardinality(DOMAIN ret.value) = num_params
    /\ \A label \in DOMAIN ret.value : ret.value[label] = NA \/ float(ret.value[label]) /= <<>>

\* the value the summary owes to parameter i (0-based): from slot i alone
OwnSlotValue(i) ==
  IF i >= num_plots \/ Selected(CallData[i + 1], call.range_up, call.range_down) = {}
  THEN NA
  ELSE format_significant_figures(
         MeanOf(YSumIn(CallData[i + 1], call.range_up, call.range_down),
                PointsIn(CallData[i + 1], call.range_up, call.range_down)), 5)

\* C8: the summary's value for parameter i comes from slot i and no other: it is
\* "N/A" exactly when i >= num_plots or slot i is empty in the window, and else
\* the formatted combined mean (dual series) or mean of y (single series) of slot i.
C8_ParameterFromOwnSlot ==
  call.op = "get_range_based_specimen_summary" =>
    \A i \in 0..(num_params - 1) :
      /\ parameter_labels[i + 1] \in DOMAIN ret.value
      /\ ret.value[parameter_labels[i + 1]] = OwnSlotValue(i)
      /\ OwnSlotValue(i) = NA <=>
           (i >= num_plots \/ "error" \in DOMAIN
              calculate_range_based_averages(CallData, num_plots, call.site, call.specimen,
                                             call.range_up, call.range_down).plot_averages[i + 1])

\* ------------------------------------------------------------------ properties of the condition evaluator

\* a string of nothing but whitespace
Blank(str) == \A i \in DOMAIN str : str[i] \in Whitespace

\* C9: an empty or all-whitespace condition, and a parameter index below 0 or
\* not below the number of labels, make the check return true.
C9_NoConditionPasses ==
  (/\ call.op = "check_parameter_condition_independently"
   /\ \/ Blank(call.condition_str)
      \/ call.parameter_index < 0
      \/ call.parameter_index >= Len(parameter_labels))
  => ret = Returned(TRUE)

\* index -1 with a condition that a value in the data would fail
C9_Witness ==
  /\ call.op = "check_parameter_condition_independently"
  /\ call.parameter_index = -1
  /\ call.condition_str = <<"=", "1">>
  /\ num_params > 0
  /\ num_plots >= num_params
  /\ <<call.range_up, call.range_down>> = <<100, 1>>
  /\ ret = Returned(TRUE)

\* the summary's display string for the parameter of the last call
CallDisplay ==
  get_range_based_specimen_summary(
    calculate_range_based_averages(CallData, num_plots, call.site, call.specimen,
                                   call.range_up, call.range_down),
    num_plots, num_params, data_display_labels)[parameter_labels[call.parameter_index + 1]]

\* C10: the check returns true or false and raises nothing; it returns false
\* only for an index in bounds, a condition that parses and a display string
\* other than "N/A". (Violated: "=" and "!=" with a threshold of more digits than
\* a float holds leave the method with an OverflowError.)
C10_FailOpen ==
  call.op = "check_parameter_condition_independently" =>
    /\ ret \in {Returned(TRUE), Returned(FALSE)}
    /\ ret = Returned(FALSE) =>
         /\ call.parameter_index \in 0..(Len(parameter_labels) - 1)
         /\ parse_filter_expression(call.condition_str) /= <<>>
         /\ CallDisplay /= NA

\* the parsed condition of the last call, and whether the call got as far as
\* comparing a value on display
CallParsed == parse_filter_expression(call.condition_str)
Compared ==
  /\ call.op = "check_parameter_condition_independently"
  /\ call.parameter_index \in 0..(Len(parameter_labels) - 1)
  /\ CallParsed /= <<>>
  /\ CallDisplay /= NA

\* C11: with "=" (written or implied) and a value on display, the check returns
\* true if and only if the threshold, formatted to 5 significant figures, is the
\* display string.
C11_EqualComparesStrings ==
  (Compared /\ CallParsed[1] = "=") =>
    (ret = Returned(TRUE) <=> format_significant_figures(CallParsed[2], 5) = CallDisplay)

\* a threshold that is not the number on display, and formats to it
C11_Witness ==
  /\ Compared
  /\ call.condition_str = <<"=">> \o CallDisplay \o <<"1">>
  /\ Cmp(parse_formatted_value(CallDisplay), CallParsed[2]) /= 0
  /\ ret = Returned(TRUE)

\* the result of the same call with "=" in place of "!="
EqualResult ==
  EvaluateCondition(
    get_range_based_specimen_summary(
      calculate_range_based_averages(
        generate_specimen_data_for_data_box(data_cache, call.site, call.specimen, num_plots,
                                            hash_salt, np_random).data,
        num_plots, call.site, call.specimen, call.range_up, call.range_down),
      num_plots, num_params, data_display_labels),
    Item(parameter_labels, call.parameter_index),
    Tail(call.condition_str))

\* C12: with a value on display, "!=N" returns the negation of what "=N" returns
\* for the same specimen, parameter and window. (Violated: for an N of more
\* digits than a float holds neither call returns.)
C12_NotEqualNegatesEqual ==
  (Compared /\ CallParsed[1] = "!=") =>
    /\ StartsWith(call.condition_str, <<"!", "=">>)
    /\ parse_filter_expression(Tail(call.condition_str)) = <<"=", CallParsed[2]>>
    /\ \E b \in BOOLEAN : ret = Returned(b) /\ EqualResult = Returned(~b)

\* a * 10^k and b * 10^k for a k that makes both integers
Scaled(a, b) == a.m * Pow10(a.e - Min(a.e, b.e))

\* C13: with ">", ">=", "<", "<=" and a value on display, the result is the
\* comparison of the number the display string writes with the threshold as
\* written.
C13_OrderComparesParsedDisplay ==
  (Compared /\ CallParsed[1] \in {">", ">=", "<", "<="}) =>
    LET shown == float(CallDisplay)[1]
        x == Scaled(shown, CallParsed[2])
        y == Scaled(CallParsed[2], shown)
    IN ret = Returned(CASE CallParsed[1] = ">" -> x > y
                        [] CallParsed[1] = ">=" -> x >= y
                        [] CallParsed[1] = "<" -> x < y
                        [] CallParsed[1] = "<=" -> x <= y)

\* the mean before it is rounded for display
CallMean ==
  LET entry == calculate_range_based_averages(CallData, num_plots, call.site, call.specimen,
                                              call.range_up, call.range_down)
                 .plot_averages[call.parameter_index + 1]
  IN IF entry.type = "multi_line" THEN entry.combined_average ELSE entry.y_average

\* ">" the value on display is false although the mean itself is above it
C13_Witness ==
  /\ Compared
  /\ call.condition_str = <<">">> \o CallDisplay
  /\ \A i, j \in DOMAIN parameter_labels : parameter_labels[i] = parameter_labels[j] => i = j
  /\ Cmp(CallMean, CallParsed[2]) > 0
  /\ ret = Returned(FALSE)

\* ------------------------------------------------------------------ properties of the expression parser

\* s between its first and its last character that is no space
Trimmed(s) ==
  LET inked == {i \in 1..Len(s) : s[i] /= " "}
  IN IF inked = {} THEN <<>>
     ELSE SubSeq(s, CHOOSE i \in inked : \A j \in inked : i <= j,
                    CHOOSE i \in inked : \A j \in inked : i >= j)

\* the operators and how they are written
Operators == {">=", "<=", "!=", ">", "<", "="}
Written(operator) ==
  CASE operator = ">=" -> <<">", "=">>
    [] operator = "<=" -> <<"<", "=">>
    [] operator = "!=" -> <<"!", "=">>
    [] OTHER -> <<operator>>

\* n is an optional "-", one or more digits, and optionally a point and further digits
IsNumeral(n) ==
  LET body == IF n /= <<>> /\ n[1] = "-" THEN Tail(n) ELSE n
  IN \E k \in 1..Len(body) :
       /\ \A j \in 1..k : body[j] \in DigitChars
       /\ \/ k = Len(body)
          \/ /\ body[k + 1] = "."
             /\ \A j \in (k + 2)..Len(body) : body[j] \in DigitChars

\* the number a numeral writes
NumeralValue(n) ==
  LET digits == SelectSeq(n, LAMBDA c : c \in DigitChars)
      whole == SumOver([j \in 1..Len(digits) |-> DigitVal(digits[j]) * Pow10(Len(digits) - j)],
                       1..Len(digits))
      points == {i \in 1..Len(n) : n[i] = "."}
  IN Dec(IF n[1] = "-" THEN -whole ELSE whole,
         IF points = {} THEN 0 ELSE (CHOOSE i \in points : TRUE) - Len(n))

\* the readings of t as an operator (or none, for "="), spaces, and a numeral
Readings(t) ==
  {<<operator, NumeralValue(SubSeq(t, k + 1, Len(t)))>> :
     <<operator, k>> \in
       {<<o, i>> \in Operators \X (0..Len(t)) :
          /\ i >= Len(Written(o))
          /\ SubSeq(t, 1, Len(Written(o))) = Written(o)
          /\ \A j \in (Len(Written(o)) + 1)..i : t[j] = " "
          /\ IsNumeral(SubSeq(t, i + 1, Len(t)))}}
  \cup (IF IsNumeral(t) THEN {<<"=", NumeralValue(t)>>} ELSE {})

\* C14: parse_filter_expression returns (op, N) exactly when the trimmed string
\* is an operator (or none, for "="), optional spaces, and a number N written as an
\* optional "-", digits and an optional point with further digits; for every other
\* string it returns None.
C14_ParserGrammar ==
  (call.op = "parse_filter_expression" /\ pc = "returned") =>
    IF Readings(Trimmed(call.expression)) = {}
    THEN ret = Returned(<<>>)
    ELSE Readings(Trimmed(call.expression)) = {ret.value}

\* ">= 10" gives (">=", 10.0)
C14_Witness ==
  /\ call.op = "parse_filter_expression"
  /\ call.expression = <<">", "=", " ", "1", "0">>
  /\ ret = Returned(<<">=", Dec(10, 0)>>)

\* ------------------------------------------------------------------ properties of the formatter

\* the magnitudes of the values given to the formatter
Magnitudes == (-MaxShift - 1)..10

\* 10^m <= abs(v) < 10^(m + 1), for v.m of fewer than 9 digits
HasMagnitude(v, m) ==
  /\ m - v.e \in 0..8
  /\ Pow10(m - v.e) <= Abs(v.m)
  /\ Abs(v.m) < Pow10(m - v.e + 1)

\* t without a leading "-"
Unsign(t) == IF t /= <<>> /\ t[1] = "-" THEN Tail(t) ELSE t

\* t is an optional "-", one or more digits and, for decimals > 0, a point and
\* that many digits
IsFixedForm(t, decimals) ==
  \E k \in 1..Len(Unsign(t)) :
    /\ \A j \in 1..k : Unsign(t)[j] \in DigitChars
    /\ IF decimals = 0 THEN k = Len(Unsign(t))
       ELSE /\ Len(Unsign(t)) = k + 1 + decimals
            /\ Unsign(t)[k + 1] = "."
            /\ \A j \in (k + 2)..Len(Unsign(t)) : Unsign(t)[j] \in DigitChars

\* t is a mantissa with 4 decimals, "e", and the exponent m with its sign
IsScientificForm(t, m) ==
  \E p \in 2..(Len(t) - 2) :
    /\ t[p] = "e"
    /\ IsFixedForm(SubSeq(t, 1, p - 1), 4)
    /\ t[p + 1] = (IF m < 0 THEN "-" ELSE "+")
    /\ \A j \in (p + 2)..Len(t) : t[j] \in DigitChars
    /\ NumeralValue(SubSeq(t, p + 2, Len(t))) = Dec(Abs(m), 0)

\* C15: zero is written "0.0000"; a value of magnitude m is written in
\* scientific form (mantissa with 4 decimals, "e", signed m) if and only if
\* m >= 4 or m < -2, and otherwise in fixed notation with max(0, 5 - m - 1)
\* decimals.
C15_NotationByMagnitude ==
  (call.op = "format_significant_figures" /\ pc = "returned") =>
    IF call.value.m = 0 THEN ret = Returned(<<"0", ".", "0", "0", "0", "0">>)
    ELSE \A m \in Magnitudes :
           HasMagnitude(call.value, m) =>
             IF m >= 4 \/ m < -2
             THEN IsScientificForm(ret.value, m) /\ ~IsFixedForm(ret.value, Max(0, 5 - m - 1))
             ELSE IsFixedForm(ret.value, Max(0, 5 - m - 1)) /\ ~IsScientificForm(ret.value, m)

\* 12.345 gives "12.345", and a value of magnitude 4 a mantissa and "e+4"
C15_Witness ==
  /\ call.op = "format_significant_figures"
  /\ call.value = Dec(12345, -3)
  /\ HasMagnitude(call.value, 1)
  /\ ret = Returned(<<"1", "2", ".", "3", "4", "5">>)

\* the digits of t from its first nonzero digit on
SignificantDigits(t) == Significant(SelectSeq(t, LAMBDA c : c \in DigitChars))

\* t up to its "e" (all of t when it has none)
MantissaOf(t) == Before(t, {i \in 1..Len(t) : t[i] = "e"})

\* C16: the string written for a nonzero value carries exactly 5 significant
\* digits: counted from the first nonzero digit in fixed notation, and as a
\* mantissa of one nonzero digit, a point and 4 decimals in scientific notation.
\* (Violated: a value that rounds up across a power of ten is written with the
\* decimals of the magnitude it had before rounding.)
C16_FiveSignificantDigits ==
  (call.op = "format_significant_figures" /\ pc = "returned" /\ call.value.m /= 0) =>
    /\ ret /= Raised("OverflowError")
    /\ Len(SignificantDigits(MantissaOf(ret.value))) = 5
    /\ MantissaOf(ret.value) /= ret.value =>
         /\ Len(Unsign(MantissaOf(ret.value))) = 6
         /\ Unsign(MantissaOf(ret.value))[1] \in DigitChars \ {"0"}
         /\ Unsign(MantissaOf(ret.value))[2] = "."

\* ------------------------------------------------------------------ properties of the round trip

\* abs(p - v) <= 5 * 10^(m - 5), half a unit of the fifth significant digit of a
\* value of magnitude m; k is an exponent not above those of p, v and the unit
WithinHalfUnit(p, v, m, k) ==
  Abs(p.m * Pow10(p.e - k) - v.m * Pow10(v.e - k)) <= 5 * Pow10(m - 5 - k)

\* C17: for a value v of magnitude in [-2, 4), what parse_formatted_value reads
\* from the string format_significant_figures writes for v differs from v by
\* at most half a unit of the fifth significant digit of v.
C17_RoundTrip ==
  (call.op = "parse_formatted_value" /\ pc = "returned") =>
    \A v \in ArgValues, m \in -2..3 :
      (HasMagnitude(v, m) /\ format_significant_figures(v, 5) = call.formatted_str) =>
        WithinHalfUnit(ret.value, v, m, Min(Min(ret.value.e, v.e), m - 5))

\* 9.99996 is written "10.0000" and read back as 10.0
C17_Witness ==
  /\ call.op = "parse_formatted_value"
  /\ HasMagnitude(Dec(999996, -5), 0)
  /\ call.formatted_str = format_significant_figures(Dec(999996, -5), 5)
  /\ ret = Returned(Dec(100000, -4))

\* ------------------------------------------------------------------ properties of the statistics aggregator

\* the last call was generate_single_site_plot_data and returned plot data
SiteData ==
  /\ call.op = "generate_single_site_plot_data"
  /\ "parameter_stats" \in DOMAIN ret.value

\* the specimens of the last call whose display string for parameter i (0-based)
\* is not "N/A"
WithValue(i) ==
  {k \in DOMAIN ret.value.specimens :
     ShownValue(call.site_name, ret.value.specimens[k], i, call.range_up, call.range_down) /= NA}

\* every stat bundle has std >= 0, upper_1sigma = mean + std and
\* lower_1sigma = mean - std
WellFormed(stats) ==
  \A i \in DOMAIN stats :
    /\ stats[i].std.m >= 0
    /\ stats[i].upper_1sigma = Dec(stats[i].mean.m + stats[i].std.m, stats[i].mean.e)
    /\ stats[i].lower_1sigma = Dec(stats[i].mean.m - stats[i].std.m, stats[i].mean.e)
    /\ stats[i].std.e = stats[i].mean.e

\* C18 as stated: every stat bundle of generate_single_site_plot_data has
\* std >= 0, upper_1sigma = mean + std, lower_1sigma = mean - std, and a count
\* equal to the number of specimens with a value other than "N/A" for that
\* parameter, at most the number of specimens.
C18_CountsParseable ==
  SiteData =>
    /\ WellFormed(ret.value.parameter_stats)
    /\ \A i \in DOMAIN ret.value.parameter_stats :
         /\ ret.value.parameter_stats[i].count = Cardinality(WithValue(i - 1))
         /\ ret.value.parameter_stats[i].count <= Len(ret.value.specimens)

\* C18 as amended: every stat bundle of generate_single_site_plot_data has
\* std >= 0, upper_1sigma = mean + std, lower_1sigma = mean - std, and a count
\* equal to the number of specimens the statistics are computed over, those with
\* "N/A" for that parameter included.
C18_CountsSpecimens ==
  SiteData =>
    /\ WellFormed(ret.value.parameter_stats)
    /\ Len(ret.value.parameter_stats) = num_params
    /\ \A i \in DOMAIN ret.value.parameter_stats :
         ret.value.parameter_stats[i].count = Len(ret.value.specimens)

\* two specimens selected, a window without data: "N/A" for both, and count 2
C18_Witness ==
  /\ SiteData
  /\ Len(call.selected_items) = 2
  /\ Len(ret.value.specimens) = 2
  /\ num_params > 0
  /\ WithValue(0) = {}
  /\ ret.value.parameter_stats[1].count = 2

\* the last call was generate_all_sites_plot_data
AllSitesData == call.op = "generate_all_sites_plot_data" /\ pc = "returned"

\* the display strings of the specimens of plot_averages, by label, for the
\* window of the call
Shown(site, plot_averages) ==
  [k \in DOMAIN plot_averages |->
     get_range_based_specimen_summary(
       calculate_range_based_averages(
         generate_specimen_data_for_data_box(data_cache, site, plot_averages[k].specimen,
                                             num_plots, hash_salt, np_random).data,
         num_plots, site, plot_averages[k].specimen, call.range_up, call.range_down),
       num_plots, num_params, data_display_labels)]

\* what a display string contributes to the statistics, in units: its value,
\* and 0 when it is "N/A"
Contribution(value_str) ==
  IF value_str = NA THEN 0 ELSE InUnits(parse_formatted_value(value_str))

\* every specimen of plot_averages has num_params values, 0.0 where the display
\* (shown) is "N/A"
ZeroForMissing(shown, plot_averages) ==
  \A k \in DOMAIN plot_averages :
    /\ Len(plot_averages[k].values) = num_params
    /\ \A i \in 1..num_params :
         shown[k][data_display_labels[i]] = NA => plot_averages[k].values[i] = Dec(0, 0)

\* bundle is the statistics of all of units: their number, their mean and
\* their standard deviation, to the unit
StatisticsOf(bundle, units) ==
  /\ bundle.count = Len(units)
  /\ 2 * Abs(bundle.mean.m * Len(units) - SeqSum(units)) <= Len(units)
  /\ bundle.std.m * bundle.std.m
       <= DivRound(SeqSum(SquaredDeviations(units, bundle.mean.m)), Len(units))
  /\ (bundle.std.m + 1) * (bundle.std.m + 1)
       > DivRound(SeqSum(SquaredDeviations(units, bundle.mean.m)), Len(units))

\* stats has a bundle per parameter, over the displays (shown) of every specimen
OverEverySpecimen(shown, stats) ==
  /\ Len(stats) = num_params
  /\ \A i \in DOMAIN stats :
       StatisticsOf(stats[i],
                    [k \in DOMAIN shown |-> Contribution(shown[k][data_display_labels[i]])])

\* the values and the statistics of a site count "N/A" as 0.0
MissingAsZero(site, plot_averages, stats) ==
  \A shown \in {Shown(site, plot_averages)} :
    ZeroForMissing(shown, plot_averages) /\ OverEverySpecimen(shown, stats)

\* the sites of sites_data, in the order of the catalog
SitesOf(sites_data) == SelectSeq(SiteOrder, LAMBDA site : site \in DOMAIN sites_data)

\* global_stats has a bundle per parameter, over the average of every site
OverEverySite(sites_data, global_stats) ==
  /\ Len(global_stats) = num_params
  /\ \A i \in DOMAIN global_stats :
       StatisticsOf(global_stats[i],
                    [k \in DOMAIN SitesOf(sites_data) |->
                       sites_data[SitesOf(sites_data)[k]].site_averages[i].m])

\* C19: in the statistics of a site (generate_single_site_plot_data and
\* generate_all_sites_plot_data) and in the global statistics, every specimen
\* has exactly num_params values, a specimen whose display for a parameter is
\* "N/A" has the value 0.0 there, and the count, the mean and the standard
\* deviation of the parameter are taken over all specimens (all sites), those
\* with 0.0 included.
C19_MissingCountsAsZero ==
  /\ SiteData =>
       MissingAsZero(call.site_name, ret.value.plot_averages, ret.value.parameter_stats)
  /\ AllSitesData =>
       /\ \A site \in DOMAIN ret.value.sites_data :
            MissingAsZero(site, ret.value.sites_data[site].specimens,
                          ret.value.sites_data[site].site_stats)
       /\ OverEverySite(ret.value.sites_data, ret.value.global_stats)

\* all sites, a window without data: every display is "N/A", every value is
\* 0.0, and the four sites count in the global statistics
C19_Witness ==
  /\ AllSitesData
  /\ num_params > 0
  /\ num_plots > 0
  /\ Cardinality(DOMAIN ret.value.sites_data) = Len(SiteOrder)
  /\ \A site \in DOMAIN ret.value.sites_data :
       \A k \in DOMAIN ret.value.sites_data[site].specimens :
         /\ ShownValue(site, ret.value.sites_data[site].specimens[k].specimen, 0,
                       call.range_up, call.range_down) = NA
         /\ ret.value.sites_data[site].specimens[k].values[1] = Dec(0, 0)
  /\ ret.value.global_stats[1].count = Len(SiteOrder)

\* the number of ' → ' in text
Arrows(text) == Cardinality({i \in 1..Len(text) : i + 2 <= Len(text) /\ SubSeq(text, i, i + 2) = Arrow})

\* the place of the first ' → ' in text
ArrowAt(text) == CHOOSE i \in 1..Len(text) : i + 2 <= Len(text) /\ SubSeq(text, i, i + 2) = Arrow

\* item is a 'Site → Specimen' string with exactly one arrow separator, or a
\* site/specimen pair
IsEntry(item) ==
  \/ item.kind = "str" /\ Arrows(item.text) = 1
  \/ item.kind = "dict" /\ item.site /= <<>> /\ item.specimen /= <<>>

\* the site and the specimen of an entry
SiteOf(item) ==
  IF item.kind = "str" THEN strip(SubSeq(item.text, 1, ArrowAt(item.text) - 1)) ELSE item.site
SpecimenOf(item) ==
  IF item.kind = "str" THEN strip(SubSeq(item.text, ArrowAt(item.text) + 3, Len(item.text)))
  ELSE item.specimen

\* the specimens of the entries of selected_items for site, in their order
EntriesFor(site, selected_items) ==
  LET entries == SelectSeq(selected_items, LAMBDA item : IsEntry(item) /\ SiteOf(item) = site)
  IN [k \in DOMAIN entries |-> SpecimenOf(entries[k])]

\* the sites that selected_items has an entry for
SitesSelected(selected_items) ==
  {SiteOf(selected_items[k]) : k \in {j \in DOMAIN selected_items : IsEntry(selected_items[j])}}

\* the specimens of plot_averages, in their order
Named(plot_averages) == [k \in DOMAIN plot_averages |-> plot_averages[k].specimen]

\* C20: generate_single_site_plot_data for a catalog site S computes over the
\* specimens of the selection's entries for S, and over all catalog specimens
\* of S when the selection has no entry for S; generate_all_sites_plot_data
\* computes over the selection's entries grouped by site, and over every site
\* and specimen of the catalog when the selection has no entry at all. An
\* entry is a 'Site → Specimen' string with exactly one arrow separator or a
\* site/specimen pair; every other item is skipped, and no call raises.
C20_SelectionFallback ==
  /\ (call.op = "generate_single_site_plot_data" /\ pc = "returned"
        /\ call.site_name \in DOMAIN sites) =>
       /\ SiteData
       /\ ret.value.specimens =
            (IF EntriesFor(call.site_name, call.selected_items) = <<>>
             THEN sites[call.site_name]
             ELSE EntriesFor(call.site_name, call.selected_items))
       /\ Named(ret.value.plot_averages) = ret.value.specimens
       /\ ret.value.specimen_count = Len(ret.value.specimens)
  /\ AllSitesData =>
       /\ "sites_data" \in DOMAIN ret.value
       /\ DOMAIN ret.value.sites_data =
            (IF SitesSelected(call.selected_items) = {} THEN DOMAIN sites
             ELSE SitesSelected(call.selected_items))
       /\ \A site \in DOMAIN ret.value.sites_data :
            /\ Named(ret.value.sites_data[site].specimens) =
                 (IF SitesSelected(call.selected_items) = {} THEN sites[site]
                  ELSE EntriesFor(site, call.selected_items))
            /\ ret.value.sites_data[site].specimen_count =
                 Len(ret.value.sites_data[site].specimens)

\* ------------------------------------------------------------------ site statistics inside the global statistics

\* site appears in selected_items: a 'Site → Specimen' string or a dict names it
Appears(site, selected_items) ==
  \E k \in DOMAIN selected_items :
    \/ selected_items[k].kind = "str" /\ Arrows(selected_items[k].text) = 1
         /\ SiteOf(selected_items[k]) = site
    \/ selected_items[k].kind = "dict" /\ selected_items[k].site = site

\* what generate_single_site_plot_data returns for site, with the selection
\* and the window of the last call
SingleSite(site) ==
  generate_single_site_plot_data(data_cache, np_random, site, call.selected_items,
                                 call.range_up, call.range_down).data

\* C21: for every site that appears in the selection, the site_stats that
\* generate_all_sites_plot_data reports for it are the parameter_stats of
\* generate_single_site_plot_data for that site, the same selection and the
\* same window; each global bundle is the mean and the standard deviation of
\* the site means over the sites reported, with their number as its count.
C21_GlobalReusesSite ==
  AllSitesData =>
    /\ \A site \in DOMAIN ret.value.sites_data :
         Appears(site, call.selected_items) =>
           \A single \in {SingleSite(site)} :
             /\ single /= <<>>
             /\ ret.value.sites_data[site].site_stats = single.parameter_stats
    /\ OverEverySite(ret.value.sites_data, ret.value.global_stats)

\* ------------------------------------------------------------------ properties of the readers

\* calculate_range_based_averages, get_range_based_specimen_summary and
\* check_parameter_condition_independently
PairReaders ==
  {"calculate_range_based_averages", "get_range_based_specimen_summary",
   "check_parameter_condition_independently"}

\* the cache keys of the specimens of groups (<<site, specimens>> each)
KeysOf(groups) ==
  UNION {{CacheKey(groups[g][1], groups[g][2][k]) : k \in DOMAIN groups[g][2]} :
           g \in DOMAIN groups}

\* the cache keys the call c reads
KeysRead(c) ==
  IF c.op \in PairReaders THEN {CacheKey(c.site, c.specimen)}
  ELSE IF c.op = "generate_single_site_plot_data"
  THEN KeysOf(<< <<c.site_name, SiteSpecimens(c.site_name, c.selected_items)>> >>)
  ELSE IF c.op = "generate_all_sites_plot_data" THEN KeysOf(SitesSpecimens(c.selected_items))
  ELSE {}

\* c is a call of a reader
IsReader(c) ==
  c.op \in PairReaders \cup {"generate_single_site_plot_data", "generate_all_sites_plot_data"}

\* the summary of (site, specimen, window) in an application that has just
\* been started with the same configuration
FreshSummary(site, specimen, range_up, range_down) ==
  get_range_based_specimen_summary(
    calculate_range_based_averages(
      generate_specimen_data_for_data_box(_initialize_all_data(EmptyCache, num_plots, hash_salt, 0).cache,
                                          site, specimen, num_plots, hash_salt, 0).data,
      num_plots, site, specimen, range_up, range_down),
    num_plots, num_params, data_display_labels)

\* C23: a call of calculate_range_based_averages,
\* get_range_based_specimen_summary, check_parameter_condition_independently,
\* generate_single_site_plot_data or generate_all_sites_plot_data that finds
\* every dataset it reads in the cache leaves the cache (its keys and every
\* stored array) as it was; and the summary returned for a (site, specimen,
\* window) is the one a freshly started application returns, whatever was
\* requested before.
C23_AggregationReadOnly ==
  /\ [][(pc = "idle" /\ IsReader(call') /\ KeysRead(call') \subseteq DOMAIN data_cache)
          => data_cache' = data_cache]_vars
  /\ [](("range_up" \in DOMAIN call /\ call.op = "get_range_based_specimen_summary")
          => ret = Returned(FreshSummary(call.site, call.specimen, call.range_up,
                                         call.range_down)))

\* a summary over the window [1, 100] with a value on display, after an earlier
\* call put a dataset from outside the catalog into the cache
C23_Witness ==
  /\ call.op = "get_range_based_specimen_summary"
  /\ pc = "returned"
  /\ call.range_up = 100
  /\ CacheKey(OutsidePair[1], OutsidePair[2]) \in DOMAIN data_cache
  /\ call.specimen /= OutsidePair[2]
  /\ num_params > 0
  /\ ret.value[data_display_labels[1]] /= NA

\* the last call has range_down above range_up
Reversed == "range_up" \in DOMAIN call /\ pc = "returned" /\ call.range_down > call.range_up

\* C25: with range_down > range_up, calculate_range_based_averages gives every
\* slot the error marker of an empty range and makes overall_statistics the
\* error marker, every value of the summary is "N/A", and every condition
\* check returns true; nothing is raised.
C25_ReversedWindowIsEmpty ==
  /\ (Reversed /\ call.op = "calculate_range_based_averages") =>
       /\ "value" \in DOMAIN ret
       /\ DOMAIN ret.value.plot_averages = 1..num_plots
       /\ \A k \in DOMAIN ret.value.plot_averages :
            /\ "error" \in DOMAIN ret.value.plot_averages[k]
            /\ ret.value.plot_averages[k].error = NoPoints
       /\ ret.value.overall_statistics = [error |-> NoValid]
  /\ (Reversed /\ call.op = "get_range_based_specimen_summary") =>
       /\ "value" \in DOMAIN ret
       /\ \A label \in DOMAIN ret.value : ret.value[label] = NA
  /\ (Reversed /\ call.op = "check_parameter_condition_independently") =>
       ret = Returned(TRUE)

\* the window [9, 2] on a specimen with three slots, the third with two series
C25_Witness ==
  /\ Reversed
  /\ call.op = "calculate_range_based_averages"
  /\ call.range_up = 2
  /\ num_plots = 3
  /\ ret.value.plot_averages[3] = [type |-> "multi_line", error |-> NoPoints]
  /\ ret.value.plot_averages[1] = [type |-> "single_line", error |-> NoPoints]

\* ------------------------------------------------------------------ properties of the cache keys

\* C26: a get for a (site, specimen) pair returns the dataset generated for
\* that pair, titled with its specimen in every slot, never the one generated
\* for another pair: distinct pairs are stored under distinct keys.
C26_KeysIdentifyPairs ==
  (call.op = "generate_specimen_data_for_data_box" /\ pc = "returned") =>
    \A k \in DOMAIN ret.value : ret.value[k].title = Title(k, call.specimen)

\* ------------------------------------------------------------------ properties of a rebuilt cache

\* the dataset a get generates for pair p on a miss, with the random source as it stands
RegeneratedOnMiss(p) ==
  generate_specimen_data_for_data_box(EmptyCache, p[1], p[2], num_plots, hash_salt, np_random).data

\* the operations that draw from the random source: the others leave it and the
\* cache as the last of these left them
HasGenerated ==
  /\ pc = "returned"
  /\ \/ call.op \in {"__init__", "clear_data_cache", "_generate_single_plot_data"}
     \/ call.op = "generate_specimen_data_for_data_box" /\ ~call.hit

\* C27: rebuilding the cache does not change the data. A clear leaves under
\* every catalog key the dataset that was there before it, slot by slot; and
\* after every operation that has used the random source the dataset a get
\* would regenerate on a miss for a catalog pair is the one the cache has held
\* for the pair since initialization.
C27_RebuildKeepsData ==
  /\ [][(pc = "idle" /\ call'.op = "clear_data_cache") =>
          \A k \in CatalogKeys :
            /\ k \in DOMAIN data_cache /\ k \in DOMAIN data_cache'
            /\ data_cache'[k] = data_cache[k]]_vars
  /\ [](HasGenerated =>
          \A p \in CatalogSet : data_cache[CacheKey(p[1], p[2])] = RegeneratedOnMiss(p))

\* a clear of a cache with an entry outside the catalog, after which the last
\* specimen of the catalog holds points that a miss would generate again
C27_Witness ==
  /\ call.op = "clear_data_cache"
  /\ call.dropped > Len(CatalogPairs)
  /\ num_plots = MaxPlots
  /\ \A p \in {CatalogPairs[Len(CatalogPairs)]} :
       /\ Len(data_cache[CacheKey(p[1], p[2])][MaxPlots].x) > 0
       /\ RegeneratedOnMiss(p)[MaxPlots].x = data_cache[CacheKey(p[1], p[2])][MaxPlots].x

\* ------------------------------------------------------------------ properties of the operators together

\* what the last call returns with operator in place of the one it was given
WithOperator(operator) == Decide(CallDisplay, <<operator, CallParsed[2]>>)

\* the last call compared a value on display for "=" and matched
EqualMatched ==
  /\ Compared
  /\ pc = "returned"
  /\ CallParsed[1] = "="
  /\ ret = Returned(TRUE)

\* ">=" and "<=" match, ">" and "<" do not
OrderAgrees ==
  /\ WithOperator(">=") = Returned(TRUE)
  /\ WithOperator("<=") = Returned(TRUE)
  /\ WithOperator(">") = Returned(FALSE)
  /\ WithOperator("<") = Returned(FALSE)

\* C28 as stated: whenever "=N" matches a value on display, ">=N" and "<=N"
\* match and ">N" and "<N" do not.
C28_OperatorsConsistent == EqualMatched => OrderAgrees

\* C28: whenever "=N" matches a value on display and N is the number the
\* display string writes, ">=N" and "<=N" match and ">N" and "<N" do not.
C28_ConsistentOnDisplayedNumber ==
  (EqualMatched /\ Cmp(parse_formatted_value(CallDisplay), CallParsed[2]) = 0) => OrderAgrees

\* "=" followed by the string on display, which is not zero
C28_Witness ==
  /\ EqualMatched
  /\ call.condition_str = <<"=">> \o CallDisplay
  /\ Cmp(parse_formatted_value(CallDisplay), Dec(0, 0)) /= 0
  /\ WithOperator("<=") = Returned(TRUE)
  /\ WithOperator("<") = Returned(FALSE)

\* ------------------------------------------------------------------ properties of the selection tree

\* the entries of the selected specimen nodes
SelectedSpecimenNodes ==
  UNION {{Entry(tree[i].name, tree[i].children[j].name) :
            j \in {j \in DOMAIN tree[i].children : tree[i].children[j].selected}} :
         i \in DOMAIN tree}

\* C29: a site node with specimens is selected if and only if all its specimen
\* nodes are; get_selected_items returns the 'Site → Specimen' strings of the
\* selected specimen nodes, each once, and nothing for a site node.
C29_TreeSelectionConsistent ==
  tree /= NoTree =>
    /\ \A i \in DOMAIN tree :
         tree[i].children /= <<>> =>
           (tree[i].selected <=> \A j \in DOMAIN tree[i].children : tree[i].children[j].selected)
    /\ \A items \in {get_selected_items(tree)} :
         /\ {items[k] : k \in DOMAIN items} = SelectedSpecimenNodes
         /\ \A k, l \in DOMAIN items : items[k] = items[l] => k = l
         /\ \A k \in DOMAIN items, i \in DOMAIN tree : items[k] /= tree[i].name

\* a click on the last unselected specimen of the second site has marked the
\* site, while the first site has one specimen selected and is not marked
C29_Witness ==
  /\ call.op = "on_item_clicked"
  /\ tree[2].selected
  /\ tree[2].children[1].selected
  /\ ~tree[1].selected
  /\ tree[1].children[3].selected
  /\ Len(get_selected_items(tree)) = 3

\* ------------------------------------------------------------------ properties of the navigation

\* the place in the catalog of the pair the two boxes of w show, 0 when they
\* show none
Position(w) == IndexIn(CatalogPairs, <<w.site_combo, w.specimen_combo>>)

\* C30: an arrow key walks the catalog in its order. navigate_next moves the
\* selection from a catalog pair to the next pair of the catalog, across the
\* end of a site to the first specimen of the next site, and leaves it on the
\* last pair of the last site; navigate_previous moves it to the pair before
\* and leaves it on the first pair of the first site; with the site box or the
\* specimen box on its placeholder both leave the window and the cache as they
\* are.
C30_NavigationWalksCatalog ==
  /\ [][call'.op = "navigate_next" =>
          IF Position(window) = 0 THEN window' = window /\ data_cache' = data_cache
          ELSE Position(window') = Min(Position(window) + 1, Len(CatalogPairs))]_vars
  /\ [][call'.op = "navigate_previous" =>
          IF Position(window) = 0 THEN window' = window /\ data_cache' = data_cache
          ELSE Position(window') = Max(Position(window) - 1, 1)]_vars
  /\ [](window /= NoWindow =>
          (Position(window) = 0 <=>
             \/ window.site_combo \in {<<>>, SelectASite}
             \/ window.specimen_combo \in {<<>>, SelectASpecimen}))

\* navigate_next has crossed from the last specimen of the first site to the
\* first specimen of the second
C30_Witness ==
  /\ call.op = "navigate_next"
  /\ window.site_combo = SiteOrder[2]
  /\ window.specimen_combo = sites[SiteOrder[2]][1]
  /\ Position(window) = Len(sites[SiteOrder[1]]) + 1

\* ------------------------------------------------------------------ properties of the window

\* the requests of the last handler that read a range box holding no integer
UnparsedRequests ==
  {k \in DOMAIN call.requests :
     ~IsInt(call.requests[k].texts[1]) \/ ~IsInt(call.requests[k].texts[2])}

\* C22: a handler that reads the range boxes while the text of one of them is
\* no integer passes the window range_up = 100, range_down = 1 on, whether it
\* fills the data boxes, evaluates the colour of a parameter or draws the
\* statistics of the selection, and it ends without an exception.
C22_DefaultRangeOnBadText ==
  window /= NoWindow =>
    /\ ret = None
    /\ \A k \in UnparsedRequests :
         /\ call.requests[k].error = "none"
         /\ call.requests[k].range_up = 100
         /\ call.requests[k].range_down = 1

\* a specimen was picked in the window of main.py, whose range boxes are
\* empty: the data boxes were filled and the colour of a parameter evaluated
C22_Witness ==
  /\ window /= NoWindow
  /\ window.app = "main"
  /\ call.op = "on_specimen_changed"
  /\ RangeTexts(window) = <<<<>>, <<>>>>
  /\ \E k, l \in UnparsedRequests :
       /\ call.requests[k].op = "get_range_based_specimen_summary"
       /\ call.requests[l].op = "check_parameter_condition_independently"
       /\ call.requests[l].range_up = 100

====
